---- MODULE Spec2Model ----
(***************************************************************************)
(* Entity matching and chunked enrichment of the Watch Duty integrators:   *)
(*   src/sebastian's approach/full_scale_integrator.py  ("full" profile)   *)
(*   src/sebastian's approach/refined_integrator.py     ("refined")        *)
(*                                                                         *)
(* Units.  Coordinates are integers in hundredths of a degree, distances   *)
(* integers in hundredths of a mile, scores integers in units of 1/SCALE,  *)
(* so that every score the program computes from these inputs is exact.    *)
(* Names are sequences of one-character strings.                           *)
(***************************************************************************)
EXTENDS Integers, Sequences, FiniteSets, TLC

\* ------------------------------------------------------------------ bounds

\* Longest candidate pool drawn for one scoring run.
MaxPool == 2

\* Most fragments concatenated into one input name.
MaxFrags == 3

\* Most primary records of one pipeline run.
MaxRecords == 21

\* -------------------------------------------------------------- arithmetic

\* The score 1.0; a multiple of 2520 (Jaccard quotients with a union of at
\* most 10 tokens) and of 10000 (the slopes of the distance curves).
SCALE == 2520 * 10000

Abs(x) == IF x < 0 THEN -x ELSE x

Max(a, b) == IF a >= b THEN a ELSE b

Min(a, b) == IF a <= b THEN a ELSE b

RECURSIVE IsqrtIter(_, _, _)
IsqrtIter(x, lo, hi) ==
    IF lo >= hi THEN lo
    ELSE LET mid == (lo + hi + 1) \div 2
         IN  IF mid * mid <= x THEN IsqrtIter(x, mid, hi)
                               ELSE IsqrtIter(x, lo, mid - 1)

\* Floor of the square root.
Isqrt(x) == IsqrtIter(x, 0, 46340)

\* A coordinate field whose text float() cannot parse (it raises ValueError).
NotNumeric == 0 - 777777

\* A coordinate field that is absent: pandas reads it as NaN; float(NaN) is
\* NaN, NaN is truthy, and every comparison with it is False.
NaN == 0 - 888888

FloatRaises(v) == v = NotNumeric

IsNaN(v) == v = NaN

\* A float that is never falsy.
never_falsy(v) == FALSE

\* `not v` of a float.
Falsy(v) == v = 0

\* ------------------------------------------------------------------ geodesy

\* Hundredths of a mile in one degree of latitude, at latitude 0..90 degrees
\* (WGS-84 meridian arc, the ellipsoid geopy's geodesic uses).
MilesPerDegLat ==
    << 6871, 6871, 6871, 6871, 6871, 6871, 6872, 6872, 6872, 6872,
       6873, 6873, 6874, 6874, 6875, 6875, 6876, 6877, 6877, 6878,
       6879, 6880, 6880, 6881, 6882, 6883, 6884, 6885, 6886, 6887,
       6888, 6889, 6890, 6891, 6892, 6894, 6895, 6896, 6897, 6898,
       6899, 6901, 6902, 6903, 6904, 6905, 6907, 6908, 6909, 6910,
       6911, 6913, 6914, 6915, 6916, 6917, 6918, 6920, 6921, 6922,
       6923, 6924, 6925, 6926, 6927, 6928, 6929, 6930, 6931, 6931,
       6932, 6933, 6934, 6934, 6935, 6936, 6936, 6937, 6937, 6938,
       6938, 6939, 6939, 6939, 6940, 6940, 6940, 6940, 6940, 6940,
       6940 >>

\* Hundredths of a mile in one degree of longitude, at latitude 0..90 degrees.
MilesPerDegLng ==
    << 6917, 6916, 6913, 6908, 6900, 6891, 6879, 6866, 6850, 6832,
       6813, 6791, 6767, 6741, 6713, 6683, 6651, 6617, 6581, 6543,
       6502, 6460, 6416, 6370, 6323, 6273, 6221, 6167, 6112, 6055,
       5995, 5934, 5872, 5807, 5741, 5672, 5603, 5531, 5458, 5383,
       5306, 5228, 5148, 5067, 4984, 4899, 4813, 4726, 4637, 4547,
       4455, 4362, 4267, 4172, 4075, 3976, 3877, 3776, 3674, 3571,
       3467, 3362, 3256, 3149, 3040, 2931, 2821, 2710, 2599, 2486,
       2373, 2259, 2144, 2029, 1913, 1796, 1679, 1561, 1443, 1324,
       1205, 1086, 966, 846, 725, 605, 484, 363, 242, 121,
       0 >>

\* A table read at a latitude given in hundredths of a degree, interpolated
\* linearly between whole degrees.
DegreeLength(table, lat) ==
    table[lat \div 100 + 1]
    + ((table[Min(lat \div 100 + 1, 90) + 1] - table[lat \div 100 + 1])
       * (lat % 100)) \div 100

\* geodesic((lat1, lng1), (lat2, lng2)).miles for valid points: the length
\* of the geodesic, here from the local lengths of a degree at the mean
\* latitude (within 0.03 mile of the ellipsoidal value below 50 miles).
\* Beyond 300 miles in one direction that component stands for the distance;
\* every threshold of the program is at most 25 miles.
Hypotenuse(north, east) ==
    IF north > 30000 \/ east > 30000 THEN Max(north, east)
    ELSE Isqrt(north * north + east * east)

\* A difference of longitudes taken the short way round.
Wrapped(dlng) ==
    IF dlng % 36000 > 18000 THEN 36000 - (dlng % 36000) ELSE dlng % 36000

MeanLatitude(lat1, lat2) == (Abs(lat1) + Abs(lat2)) \div 2

GeodesicMiles(lat1, lng1, lat2, lng2) ==
    Hypotenuse(
        (Abs(lat1 - lat2)
            * DegreeLength(MilesPerDegLat, MeanLatitude(lat1, lat2))) \div 100,
        (Wrapped(Abs(lng1 - lng2))
            * DegreeLength(MilesPerDegLng, MeanLatitude(lat1, lat2))) \div 100)

\* float('inf'), the distance when geodesic raises.
Infinity == 2000000000

\* geopy raises ValueError for a non-finite coordinate or a latitude outside
\* [-90, 90].
GeodesicRaises(lat1, lng1, lat2, lng2) ==
    \/ IsNaN(lat1) \/ IsNaN(lng1) \/ IsNaN(lat2) \/ IsNaN(lng2)
    \/ Abs(lat1) > 9000 \/ Abs(lat2) > 9000

calculate_distance_miles(lat1, lng1, lat2, lng2) ==
    IF GeodesicRaises(lat1, lng1, lat2, lng2) THEN Infinity
    ELSE GeodesicMiles(lat1, lng1, lat2, lng2)

\* CA_BOUNDS, hundredths of a degree.
CA_lat_min == 3250

CA_lat_max == 4200

CA_lng_min == 0 - 12450

CA_lng_max == 0 - 11400

is_in_california(lat, lng) ==
    /\ ~IsNaN(lat) /\ ~IsNaN(lng)
    /\ CA_lat_min <= lat /\ lat <= CA_lat_max
    /\ CA_lng_min <= lng /\ lng <= CA_lng_max

\* -------------------------------------------------------------------- names

UpperCase ==
    << "A", "B", "C", "D", "E", "F", "G", "H", "I", "J", "K", "L", "M",
       "N", "O", "P", "Q", "R", "S", "T", "U", "V", "W", "X", "Y", "Z" >>

LowerCase ==
    << "a", "b", "c", "d", "e", "f", "g", "h", "i", "j", "k", "l", "m",
       "n", "o", "p", "q", "r", "s", "t", "u", "v", "w", "x", "y", "z" >>

\* [a-z]
Letters == {LowerCase[i] : i \in 1..26}

\* \d
Digits == {"0", "1", "2", "3", "4", "5", "6", "7", "8", "9"}

\* \w
WordChars == Letters \cup {UpperCase[i] : i \in 1..26} \cup Digits \cup {"_"}

\* \s
Whitespace == {" ", "\t"}

ToLower(c) ==
    IF \E i \in 1..26 : UpperCase[i] = c
    THEN LowerCase[CHOOSE i \in 1..26 : UpperCase[i] = c]
    ELSE c

RECURSIVE Lower(_)
\* str.lower()
Lower(s) == IF s = <<>> THEN <<>> ELSE <<ToLower(Head(s))>> \o Lower(Tail(s))

RECURSIVE LStrip(_)
LStrip(s) == IF s # <<>> /\ Head(s) \in Whitespace THEN LStrip(Tail(s)) ELSE s

RECURSIVE RStrip(_)
RStrip(s) ==
    IF s # <<>> /\ s[Len(s)] \in Whitespace
    THEN RStrip(SubSeq(s, 1, Len(s) - 1))
    ELSE s

\* str.strip()
Strip(s) == RStrip(LStrip(s))

\* re.sub(r"^[a-z]{2}-[a-z]{3}-", "", name)
StripSourcePrefix(s) ==
    IF /\ Len(s) >= 7
       /\ s[1] \in Letters /\ s[2] \in Letters /\ s[3] = "-"
       /\ s[4] \in Letters /\ s[5] \in Letters /\ s[6] \in Letters
       /\ s[7] = "-"
    THEN SubSeq(s, 8, Len(s))
    ELSE s

\* re.sub(r"-n\d{2}[a-z]$", "", name)
StripNumberSuffix(s) ==
    LET n == Len(s)
    IN  IF /\ n >= 5
           /\ s[n - 4] = "-" /\ s[n - 3] = "n"
           /\ s[n - 2] \in Digits /\ s[n - 1] \in Digits
           /\ s[n] \in Letters
        THEN SubSeq(s, 1, n - 5)
        ELSE s

NotParen(c) == c \notin {"(", ")"}

\* re.sub(r"\(|\)", "", name)
DropParens(s) == SelectSeq(s, NotParen)

RECURSIVE DashesToSpaces(_)
\* re.sub(r"-", " ", name)
DashesToSpaces(s) ==
    IF s = <<>> THEN <<>>
    ELSE <<IF Head(s) = "-" THEN " " ELSE Head(s)>> \o DashesToSpaces(Tail(s))

RECURSIVE SplitLetterDigit(_)
\* re.sub(r"([a-zA-Z])(\d)", r"\1 \2", name)
SplitLetterDigit(s) ==
    IF Len(s) < 2 THEN s
    ELSE IF (s[1] \in WordChars \ (Digits \cup {"_"})) /\ s[2] \in Digits
         THEN <<s[1], " ">> \o SplitLetterDigit(Tail(s))
         ELSE <<s[1]>> \o SplitLetterDigit(Tail(s))

RECURSIVE WordEnd(_, _)
\* The last index of the run of word characters that holds index i.
WordEnd(s, i) ==
    IF i < Len(s) /\ s[i + 1] \in WordChars THEN WordEnd(s, i + 1) ELSE i

RECURSIVE DropZeros(_)
\* 0+(\d+) keeps the last digit when every digit is a zero.
DropZeros(run) ==
    IF Len(run) > 1 /\ Head(run) = "0" THEN DropZeros(Tail(run)) ELSE run

RECURSIVE StripLeadingZerosFrom(_, _)
StripLeadingZerosFrom(s, i) ==
    IF i > Len(s) THEN <<>>
    ELSE IF s[i] \notin WordChars
         THEN <<s[i]>> \o StripLeadingZerosFrom(s, i + 1)
         ELSE LET j   == WordEnd(s, i)
                  run == SubSeq(s, i, j)
              IN  (IF (\A k \in i..j : s[k] \in Digits) /\ j > i /\ s[i] = "0"
                   THEN DropZeros(run)
                   ELSE run) \o StripLeadingZerosFrom(s, j + 1)

\* re.sub(r"\b0+(\d+)\b", r"\1", name): a whole word of digits loses its
\* leading zeros.
StripLeadingZeros(s) == StripLeadingZerosFrom(s, 1)

\* \bpat\b matches at index i (pat starts and ends with a word character).
MatchesAt(s, i, pat) ==
    /\ i + Len(pat) - 1 <= Len(s)
    /\ SubSeq(s, i, i + Len(pat) - 1) = pat
    /\ (i = 1 \/ s[i - 1] \notin WordChars)
    /\ (i + Len(pat) > Len(s) \/ s[i + Len(pat)] \notin WordChars)

RECURSIVE ReplaceWordFrom(_, _, _, _)
ReplaceWordFrom(s, i, pats, rep) ==
    IF i > Len(s) THEN <<>>
    ELSE IF \E p \in pats : MatchesAt(s, i, p)
         THEN LET p == CHOOSE q \in pats : MatchesAt(s, i, q)
              IN  rep \o ReplaceWordFrom(s, i + Len(p), pats, rep)
         ELSE <<s[i]>> \o ReplaceWordFrom(s, i + 1, pats, rep)

W_prescribed == <<"p", "r", "e", "s", "c", "r", "i", "b", "e", "d">>

W_fire == <<"f", "i", "r", "e">>

W_burn == <<"b", "u", "r", "n">>

W_hwy == <<"h", "w", "y">>

W_highway == <<"h", "i", "g", "h", "w", "a", "y">>

W_rx == <<"r", "x">>

\* re.sub(r"\b(prescribed fire|prescribed burn)\b", "rx", name)
ReplacePrescribed(s) ==
    ReplaceWordFrom(s, 1, {W_prescribed \o <<" ">> \o W_fire,
                           W_prescribed \o <<" ">> \o W_burn}, W_rx)

\* re.sub(r"\bhwy\b", "highway", name)
ReplaceHwy(s) == ReplaceWordFrom(s, 1, {W_hwy}, W_highway)

\* re.sub(r"\s+fire$", "", name): the final "fire" goes with the whole run
\* of whitespace before it, once.
DropTrailingFire(s) ==
    LET n == Len(s)
    IN  IF n >= 5 /\ SubSeq(s, n - 3, n) = W_fire /\ s[n - 4] \in Whitespace
        THEN RStrip(SubSeq(s, 1, n - 4))
        ELSE s

RECURSIVE CollapseWhitespace(_)
\* re.sub(r"\s+", " ", name)
CollapseWhitespace(s) ==
    IF s = <<>> THEN <<>>
    ELSE IF Head(s) \in Whitespace
         THEN <<" ">> \o CollapseWhitespace(LStrip(s))
         ELSE <<Head(s)>> \o CollapseWhitespace(Tail(s))

\* canonicalize_name: the empty (or missing) name gives "", any other name
\* goes through the substitutions in the order of the source.
canonicalize_name(name) ==
    IF name = <<>> THEN <<>>
    ELSE LET n0  == Strip(Lower(name))
             n1  == StripSourcePrefix(n0)
             n2  == StripNumberSuffix(n1)
             n3  == DropParens(n2)
             n4  == DashesToSpaces(n3)
             n5  == SplitLetterDigit(n4)
             n6  == StripLeadingZeros(n5)
             n7  == ReplacePrescribed(n6)
             n8  == ReplaceHwy(n7)
             n9  == DropTrailingFire(n8)
         IN  Strip(CollapseWhitespace(n9))

RECURSIVE TokenEnd(_, _)
\* The last index of the run of non-whitespace that holds index i.
TokenEnd(s, i) ==
    IF i < Len(s) /\ s[i + 1] \notin Whitespace THEN TokenEnd(s, i + 1) ELSE i

RECURSIVE Split(_)
\* str.split(): the words between runs of whitespace.
Split(s) ==
    LET t == LStrip(s)
    IN  IF t = <<>> THEN <<>>
        ELSE LET e == TokenEnd(t, 1)
             IN  <<SubSeq(t, 1, e)>> \o Split(SubSeq(t, e + 1, Len(t)))

\* set(words)
TokenSet(words) == {words[i] : i \in 1..Len(words)}

\* name_similarity_score: 0.0 when either name has no word, otherwise
\* len(intersection) / len(union) of the two word sets.
\* intersection / union if union > 0 else 0.0
overlap_ratio(intersection, union) ==
    IF union > 0 THEN (SCALE * intersection) \div union ELSE 0

\* The overlap counted on the word lists: a repeated word counts twice in
\* the union.
word_overlap_of_lists(words1, words2) ==
    IF words1 = <<>> \/ words2 = <<>> THEN 0
    ELSE overlap_ratio(Cardinality(TokenSet(words1) \cap TokenSet(words2)),
                       Len(words1) + Len(words2)
                       - Cardinality(TokenSet(words1) \cap TokenSet(words2)))

word_overlap(words1, words2) ==
    IF words1 = <<>> \/ words2 = <<>> THEN 0
    ELSE overlap_ratio(Cardinality(TokenSet(words1) \cap TokenSet(words2)),
                       Cardinality(TokenSet(words1) \cup TokenSet(words2)))

name_similarity_score(name1, name2) ==
    word_overlap(Split(canonicalize_name(name1)),
                 Split(canonicalize_name(name2)))

\* ------------------------------------------------- refined matcher (v2.0)

\* RefinedEntityMatcher weights and RefinedIntegrator thresholds; weights
\* and the confidence threshold in tenths, the distance in hundredths of a
\* mile.
refined_name_weight == 3

refined_geo_weight == 6

refined_temporal_weight == 1

refined_confidence_threshold == 4

refined_max_distance_miles == 2500

\* The rough-proximity box of find_evacuation_matches_refined, 0.5 degree.
refined_box_degrees == 50

\* A number of tenths as a score.
Tenths(n) == (n * SCALE) \div 10

\* validate_match that flags a distance over the limit and accepts it.
validation_flagging_only(primary_in_ca, external_in_ca, distance, max_distance_miles) ==
    [is_valid |-> primary_in_ca /\ external_in_ca,
     distance |-> distance,
     flags    |-> (IF primary_in_ca THEN <<>> ELSE <<"primary_outside_ca">>)
                  \o (IF external_in_ca THEN <<>>
                      ELSE <<"external_outside_ca">>)
                  \o (IF distance > max_distance_miles
                      THEN <<"distance_too_far">> ELSE <<>>)]

\* validate_match with the distance test left out of is_valid.
validation_without_distance(primary_in_ca, external_in_ca, distance, max_distance_miles) ==
    [is_valid |-> primary_in_ca /\ external_in_ca,
     distance |-> distance,
     flags    |-> (IF primary_in_ca THEN <<>> ELSE <<"primary_outside_ca">>)
                  \o (IF external_in_ca THEN <<>>
                      ELSE <<"external_outside_ca">>)]

\* GeographicValidator.validate_match: (is_valid, distance, quality_flags).
validation(primary_in_ca, external_in_ca, distance, max_distance_miles) ==
    [is_valid |-> primary_in_ca /\ external_in_ca
                  /\ distance <= max_distance_miles,
     distance |-> distance,
     flags    |-> (IF primary_in_ca THEN <<>> ELSE <<"primary_outside_ca">>)
                  \o (IF external_in_ca THEN <<>>
                      ELSE <<"external_outside_ca">>)
                  \o (IF distance > max_distance_miles
                      THEN <<"distance_too_far">> ELSE <<>>)]

\* validate_match with twice the distance it is given as the limit.
validate_match_twice_as_far(primary_lat, primary_lng, external_lat, external_lng, max_distance_miles) ==
    validation(is_in_california(primary_lat, primary_lng),
               is_in_california(external_lat, external_lng),
               calculate_distance_miles(primary_lat, primary_lng,
                                        external_lat, external_lng),
               2 * max_distance_miles)

validate_match(primary_lat, primary_lng, external_lat, external_lng, max_distance_miles) ==
    validation(is_in_california(primary_lat, primary_lng),
               is_in_california(external_lat, external_lng),
               calculate_distance_miles(primary_lat, primary_lng,
                                        external_lat, external_lng),
               max_distance_miles)

\* The geographic curve with the slope of its middle piece ten times too
\* steep (0.6 for 0.6 / 10).
refined_geo_score_steep(distance) ==
    IF distance <= 500
    THEN SCALE - distance * (SCALE \div 500)
    ELSE IF distance <= 1500
         THEN Tenths(8) - (distance - 500) * ((6 * SCALE) \div 1000)
         ELSE Max(Tenths(1),
                  Tenths(2) - (distance - 1500) * ((2 * SCALE) \div 10000))

\* The geographic score of the refined matcher for a distance within the
\* maximum: three linear pieces.
refined_geo_score(distance) ==
    IF distance <= 500
    THEN SCALE - distance * (SCALE \div 500)
    ELSE IF distance <= 1500
         THEN Tenths(8) - (distance - 500) * ((6 * SCALE) \div 10000)
         ELSE Max(Tenths(1),
                  Tenths(2) - (distance - 1500) * ((2 * SCALE) \div 10000))

\* What calculate_match_score returns for a pair it rejects.
RejectedScore(distance, flags) ==
    [score         |-> 0,
     factors       |-> [name |-> 0, geographic |-> 0, temporal |-> 0],
     is_valid      |-> FALSE,
     distance      |-> distance,
     quality_flags |-> flags]

\* The composite of the refined matcher with the geographic term left out.
refined_composite_without_geo(name_score, geo_score, temporal, v) ==
    [score    |-> (refined_name_weight * name_score
                   + refined_temporal_weight * temporal) \div 10,
     factors  |-> [name       |-> name_score,
                   geographic |-> geo_score,
                   temporal   |-> temporal],
     is_valid |-> v.is_valid,
     distance |-> v.distance,
     quality_flags |-> v.flags]

\* The weighted composite of the refined matcher and its factors.
refined_composite(name_score, geo_score, temporal, v) ==
    [score    |-> (refined_name_weight * name_score
                   + refined_geo_weight * geo_score
                   + refined_temporal_weight * temporal) \div 10,
     factors  |-> [name       |-> name_score,
                   geographic |-> geo_score,
                   temporal   |-> temporal],
     is_valid |-> v.is_valid,
     distance |-> v.distance,
     quality_flags |-> v.flags]

\* calculate_match_score after the geographic validation `v`.
refined_validated_score(primary_record, external_record, v) ==
    IF ~v.is_valid
    THEN RejectedScore(v.distance, v.flags)
    ELSE refined_composite(
             name_similarity_score(primary_record.name,
                                   external_record.display_name),
             refined_geo_score(v.distance),
             SCALE \div 2,
             v)

\* RefinedEntityMatcher.calculate_match_score with geo_fields
\* ('extracted_lat', 'extracted_lng') and name_field 'display_name':
\* (score, factors, is_valid, distance, quality_flags).
calculate_match_score_refined(primary_record, external_record) ==
    IF FloatRaises(primary_record.lat) \/ FloatRaises(primary_record.lng)
       \/ FloatRaises(external_record.extracted_lat)
       \/ FloatRaises(external_record.extracted_lng)
    THEN RejectedScore(Infinity, <<"coordinate_error">>)
    ELSE IF Falsy(primary_record.lat) \/ Falsy(primary_record.lng)
            \/ Falsy(external_record.extracted_lat)
            \/ Falsy(external_record.extracted_lng)
    THEN RejectedScore(Infinity, <<"missing_coordinates">>)
    ELSE refined_validated_score(
             primary_record, external_record,
             validate_match(primary_record.lat, primary_record.lng,
                            external_record.extracted_lat,
                            external_record.extracted_lng,
                            refined_max_distance_miles))

\* The enrichment_data of a MatchResult (round(distance, 2) is the distance:
\* distances are whole hundredths of a mile).
EnrichmentData(zone_record, distance) ==
    [evacuation_zone           |-> zone_record.display_name,
     evacuation_source         |-> zone_record.source_attribution,
     evacuation_dataset        |-> zone_record.dataset_name,
     evacuation_distance_miles |-> distance]

\* The zones inside the rough-proximity box, in pool order.
refined_nearby_zones(primary_lat, primary_lng, zones) ==
    LET Near(z) == /\ ~IsNaN(primary_lat) /\ ~IsNaN(primary_lng)
                   /\ Abs(primary_lat - z.extracted_lat) <= refined_box_degrees
                   /\ Abs(primary_lng - z.extracted_lng) <= refined_box_degrees
    IN  SelectSeq(zones, Near)

HasFlag(flags, wanted) == \E i \in 1..Len(flags) : flags[i] \in wanted

\* The MatchResult of the refined integrator.
refined_match_result(primary_record, zone_record, r) ==
    [primary_id       |-> primary_record.id,
     external_id      |-> zone_record.uid_v2,
     external_source  |-> "evacuation_zones",
     confidence_score |-> r.score,
     distance_miles   |-> r.distance,
     match_factors    |-> r.factors,
     quality_flags    |-> r.quality_flags,
     enrichment_data  |-> EnrichmentData(zone_record, r.distance)]

\* The acceptance test with `score >= best_score`: a later candidate of
\* equal score replaces the earlier one.
refined_accepts_ties(r, best_score) ==
    /\ r.is_valid
    /\ r.score >= Tenths(refined_confidence_threshold)
    /\ r.score >= best_score

\* `is_valid and score >= self.confidence_threshold and score > best_score`
refined_accepts(r, best_score) ==
    /\ r.is_valid
    /\ r.score >= Tenths(refined_confidence_threshold)
    /\ r.score > best_score

\* One turn of the candidate loop of find_evacuation_matches_refined on the
\* score `r` of the candidate: `acc` holds best_score, best_match (a
\* sequence of at most one MatchResult) and the two rejection counters.
refined_consider(primary_record, zone_record, acc, r) ==
    IF refined_accepts(r, acc.best_score)
    THEN [acc EXCEPT
            !.best_score = r.score,
            !.best_match = << refined_match_result(primary_record,
                                                   zone_record, r) >>]
    ELSE IF ~r.is_valid
    THEN [acc EXCEPT
            !.rejected_distance =
                @ + (IF HasFlag(r.quality_flags, {"distance_too_far"})
                     THEN 1 ELSE 0),
            !.rejected_geography =
                @ + (IF HasFlag(r.quality_flags, {"primary_outside_ca",
                                                  "external_outside_ca"})
                     THEN 1 ELSE 0)]
    ELSE acc

RECURSIVE refined_candidate_loop(_, _, _)
refined_candidate_loop(primary_record, zones, acc) ==
    IF zones = <<>> THEN acc
    ELSE refined_candidate_loop(
             primary_record, Tail(zones),
             refined_consider(primary_record, Head(zones), acc,
                              calculate_match_score_refined(primary_record,
                                                            Head(zones))))

\* The result with valid_matches counted whether or not there is a best
\* match.
refined_found_counting_every_search(acc) ==
    [matches            |-> acc.best_match,
     valid_matches      |-> 1,
     rejected_distance  |-> acc.rejected_distance,
     rejected_geography |-> acc.rejected_geography]

\* What find_evacuation_matches_refined returns and adds to quality_stats.
refined_found(acc) ==
    [matches            |-> acc.best_match,
     valid_matches      |-> Len(acc.best_match),
     rejected_distance  |-> acc.rejected_distance,
     rejected_geography |-> acc.rejected_geography]

NoBest ==
    [best_score |-> 0, best_match |-> <<>>,
     rejected_distance |-> 0, rejected_geography |-> 0]

\* RefinedIntegrator.find_evacuation_matches_refined over the pool `zones`:
\* the list of matches and what it adds to quality_stats.
find_evacuation_matches_refined(primary_record, zones) ==
    IF FloatRaises(primary_record.lat) \/ FloatRaises(primary_record.lng)
    THEN refined_found(NoBest)
    ELSE IF Falsy(primary_record.lat) \/ Falsy(primary_record.lng)
    THEN refined_found(NoBest)
    ELSE refined_found(
             refined_candidate_loop(
                 primary_record,
                 refined_nearby_zones(primary_record.lat, primary_record.lng,
                                      zones),
                 NoBest))

\* --------------------------------------------- full-scale matcher (v1.0)

\* OptimizedEntityMatcher weights and FullScaleIntegrator.confidence_threshold,
\* in tenths.
full_name_weight == 4

full_geo_weight == 4

full_temporal_weight == 2

full_confidence_threshold == 3

\* find_evacuation_matches: max_distance_miles=15.0 for the prefilter and the
\* 10.0 mile limit of the exact distance, hundredths of a mile.
full_prefilter_miles == 1500

full_match_miles == 1000

\* spatial_prefilter: miles in one degree, "1 degree ~ 69 miles".
miles_per_degree == 69

\* OptimizedEntityMatcher.spatial_prefilter with lat_field 'extracted_lat'
\* and lng_field 'extracted_lng'.  degree_buffer = max_distance_miles / 69.0
\* degrees; |d| <= degree_buffer for d in hundredths of a degree and miles
\* in hundredths of a mile is |d| * 69 <= max_distance_miles.
spatial_prefilter(primary_lat, primary_lng, external_records, max_distance_miles) ==
    LET InBox(record) ==
            /\ ~FloatRaises(record.extracted_lat)
            /\ ~FloatRaises(record.extracted_lng)
            /\ ~IsNaN(primary_lat) /\ ~IsNaN(primary_lng)
            /\ ~IsNaN(record.extracted_lat) /\ ~IsNaN(record.extracted_lng)
            /\ Abs(primary_lat - record.extracted_lat) * miles_per_degree
                   <= max_distance_miles
            /\ Abs(primary_lng - record.extracted_lng) * miles_per_degree
                   <= max_distance_miles
    IN  IF Falsy(primary_lat) \/ Falsy(primary_lng) THEN <<>>
        ELSE SelectSeq(external_records, InBox)

\* The geographic score of the optimized matcher: only within 5 miles.
optimized_geo_score(distance) ==
    IF distance <= 500
    THEN Max(Tenths(1), SCALE - distance * (SCALE \div 500))
    ELSE 0

\* The geographic part of calculate_match_score: 0.0 when a coordinate does
\* not parse or is zero.
optimized_geo(primary_record, external_record) ==
    IF FloatRaises(primary_record.lat) \/ FloatRaises(primary_record.lng)
       \/ FloatRaises(external_record.extracted_lat)
       \/ FloatRaises(external_record.extracted_lng)
    THEN 0
    ELSE IF Falsy(primary_record.lat) \/ Falsy(primary_record.lng)
            \/ Falsy(external_record.extracted_lat)
            \/ Falsy(external_record.extracted_lng)
    THEN 0
    ELSE optimized_geo_score(
             calculate_distance_miles(primary_record.lat, primary_record.lng,
                                      external_record.extracted_lat,
                                      external_record.extracted_lng))

\* The weighted composite of the optimized matcher and its factors.
optimized_composite(name_score, geo_score, temporal) ==
    [score   |-> (full_name_weight * name_score
                  + full_geo_weight * geo_score
                  + full_temporal_weight * temporal) \div 10,
     factors |-> [name |-> name_score, geographic |-> geo_score,
                  temporal |-> temporal]]

\* calculate_match_score once the name score is known: a name score under
\* 0.1 skips the geographic calculation.
optimized_score(name_score, primary_record, external_record) ==
    IF name_score < Tenths(1)
    THEN [score   |-> (name_score * full_name_weight) \div 10,
          factors |-> [name |-> name_score, geographic |-> 0, temporal |-> 0]]
    ELSE optimized_composite(name_score,
                             optimized_geo(primary_record, external_record),
                             SCALE \div 2)

\* OptimizedEntityMatcher.calculate_match_score: (composite_score, factors).
calculate_match_score_optimized(primary_record, external_record) ==
    optimized_score(name_similarity_score(primary_record.name,
                                          external_record.display_name),
                    primary_record, external_record)

\* score = max(0.1, 1.0 - (distance / 10.0)), for a distance within 10 miles.
full_distance_score(distance) ==
    Max(Tenths(1), SCALE - distance * (SCALE \div 1000))

\* The MatchResult of the full-scale integrator.
full_match_result(primary_record, zone_record, distance, score) ==
    [primary_id       |-> primary_record.id,
     external_id      |-> zone_record.uid_v2,
     external_source  |-> "evacuation_zones",
     confidence_score |-> score,
     match_factors    |-> [geographic |-> score, name |-> 0, temporal |-> 0],
     enrichment_data  |-> EnrichmentData(zone_record, distance)]

\* `score > best_score and score >= self.confidence_threshold`
full_accepts(score, best_score) ==
    score > best_score /\ score >= Tenths(full_confidence_threshold)

\* One turn of the candidate loop of find_evacuation_matches on the exact
\* distance of the candidate: `acc` holds best_score and best_match (a
\* sequence of at most one MatchResult).
full_consider(primary_record, zone_record, acc, distance) ==
    IF distance <= full_match_miles
    THEN IF full_accepts(full_distance_score(distance), acc.best_score)
         THEN [best_score |-> full_distance_score(distance),
               best_match |-> << full_match_result(
                                     primary_record, zone_record, distance,
                                     full_distance_score(distance)) >>]
         ELSE acc
    ELSE acc

RECURSIVE full_candidate_loop(_, _, _)
full_candidate_loop(primary_record, zones, acc) ==
    IF zones = <<>> THEN acc
    ELSE full_candidate_loop(
             primary_record, Tail(zones),
             full_consider(primary_record, Head(zones), acc,
                           calculate_distance_miles(
                               primary_record.lat, primary_record.lng,
                               Head(zones).extracted_lat,
                               Head(zones).extracted_lng)))

\* FullScaleIntegrator.find_evacuation_matches over the pool `zones`.
find_evacuation_matches(primary_record, zones) ==
    IF FloatRaises(primary_record.lat) \/ FloatRaises(primary_record.lng)
    THEN <<>>
    ELSE IF Falsy(primary_record.lat) \/ Falsy(primary_record.lng)
    THEN <<>>
    ELSE full_candidate_loop(
             primary_record,
             spatial_prefilter(primary_record.lat, primary_record.lng,
                               zones, full_prefilter_miles),
             [best_score |-> 0, best_match |-> <<>>]).best_match

\* -------------------------------------------------------------- enrichment

\* `value is not None and str(value).strip()` for the four enrichment
\* fields: a name is a character sequence, the source and the dataset are
\* strings, the distance is a number (never blank).
HasText(field, value) ==
    CASE field = "evacuation_zone"           -> Strip(value) # <<>>
      [] field = "evacuation_distance_miles" -> TRUE
      [] OTHER                               -> value \notin {"", " "}

\* The items of enrichment_data in insertion order.
EnrichmentFields ==
    << "evacuation_zone", "evacuation_source", "evacuation_dataset",
       "evacuation_distance_miles" >>

RECURSIVE MergeFields(_, _, _)
\* enriched[field] = value for every field of `data` that has text.
MergeFields(enriched, data, fields) ==
    IF fields = <<>> THEN enriched
    ELSE LET f == Head(fields)
         IN  MergeFields(IF HasText(f, data[f])
                         THEN (f :> data[f]) @@ enriched
                         ELSE enriched,
                         data, Tail(fields))

RECURSIVE MergeMatches(_, _)
MergeMatches(enriched, matches) ==
    IF matches = <<>> THEN enriched
    ELSE MergeMatches(MergeFields(enriched, Head(matches).enrichment_data,
                                  EnrichmentFields),
                      Tail(matches))

RECURSIVE LogOfMatches(_)
\* enrichment_log: one entry "Added <field>: <value>" per merged field, here
\* the field (the value is the record's value of that field).
LogOfMatches(matches) ==
    IF matches = <<>> THEN <<>>
    ELSE LET data == Head(matches).enrichment_data
             Kept(f) == HasText(f, data[f])
         IN  SelectSeq(EnrichmentFields, Kept) \o LogOfMatches(Tail(matches))

RECURSIVE SumOfScores(_)
SumOfScores(matches) ==
    IF matches = <<>> THEN 0
    ELSE Head(matches).confidence_score + SumOfScores(Tail(matches))

\* np.mean(confidence_scores)
MeanConfidence(matches) == SumOfScores(matches) \div Len(matches)

\* FullScaleIntegrator.enrich_record
enrich_record(primary_record, matches) ==
    IF matches = <<>> THEN primary_record
    ELSE [enrichment_sources |->
              [i \in 1..Len(matches) |-> matches[i].external_source],
          enrichment_log       |-> LogOfMatches(matches),
          match_confidence_avg |-> MeanConfidence(matches)]
         @@ MergeMatches(primary_record, matches)

\* enrich_record_refined that marks the validation as passed with no match.
enrich_record_refined_always_passed(primary_record, matches) ==
    IF matches = <<>>
    THEN [geographic_validation |-> "PASSED"] @@ primary_record
    ELSE [enrichment_sources |->
              [i \in 1..Len(matches) |-> matches[i].external_source],
          enrichment_log       |-> LogOfMatches(matches),
          match_confidence_avg |-> MeanConfidence(matches),
          quality_flags        |->
              UNION {{matches[i].quality_flags[j] :
                          j \in 1..Len(matches[i].quality_flags)} :
                     i \in 1..Len(matches)},
          geographic_validation |-> "PASSED"]
         @@ MergeMatches(primary_record, matches)

\* RefinedIntegrator.enrich_record_refined
enrich_record_refined(primary_record, matches) ==
    IF matches = <<>> THEN primary_record
    ELSE [enrichment_sources |->
              [i \in 1..Len(matches) |-> matches[i].external_source],
          enrichment_log       |-> LogOfMatches(matches),
          match_confidence_avg |-> MeanConfidence(matches),
          quality_flags        |->
              UNION {{matches[i].quality_flags[j] :
                          j \in 1..Len(matches[i].quality_flags)} :
                     i \in 1..Len(matches)},
          geographic_validation |-> "PASSED"]
         @@ MergeMatches(primary_record, matches)

\* The 'data' column: "" is empty, "json" parses, anything else makes
\* json.loads raise.  data_parsed is set whenever the column is truthy.
parse_data(record_dict) ==
    IF record_dict.data = "" THEN record_dict
    ELSE ("data_parsed" :> (IF record_dict.data = "json" THEN "object"
                                                        ELSE "empty"))
         @@ record_dict

\* The record loop of FullScaleIntegrator.process_chunk after the data
\* field is parsed.
process_parsed(record_dict, zones) ==
    enrich_record(record_dict, find_evacuation_matches(record_dict, zones))

\* The body of the record loop of FullScaleIntegrator.process_chunk: the
\* record appended to enriched_records.
process_record(record, zones) == process_parsed(parse_data(record), zones)

\* The record appended with its id alone.
refined_skipped_without_fields(record) ==
    [out |-> [id |-> record.id], california_only |-> 0, total_processed |-> 0,
     valid_matches |-> 0, rejected_distance |-> 0, rejected_geography |-> 0]

\* A record process_chunk_refined appends as it is.
refined_skipped(record) ==
    [out |-> record, california_only |-> 0, total_processed |-> 0,
     valid_matches |-> 0, rejected_distance |-> 0, rejected_geography |-> 0]

\* A Californian record after the match search `found`.
refined_enriched(record_dict, found) ==
    [out |-> enrich_record_refined(record_dict, found.matches),
     california_only    |-> 1,
     total_processed    |-> 1,
     valid_matches      |-> found.valid_matches,
     rejected_distance  |-> found.rejected_distance,
     rejected_geography |-> found.rejected_geography]

refined_parsed(record_dict, zones) ==
    refined_enriched(record_dict,
                     find_evacuation_matches_refined(record_dict, zones))

\* The body of the record loop of RefinedIntegrator.process_chunk_refined:
\* the record appended to enriched_records and what is added to
\* quality_stats.
process_record_refined(record, zones) ==
    IF FloatRaises(record.lat) \/ FloatRaises(record.lng)
    THEN refined_skipped(record)
    ELSE IF ~is_in_california(record.lat, record.lng)
    THEN refined_skipped(record)
    ELSE refined_parsed(parse_data(record), zones)

\* ------------------------------------------------------------- input data

T_kincade_fire == <<"K", "i", "n", "c", "a", "d", "e", " ", "F", "i", "r", "e">>

T_kincade_rd == <<"K", "i", "n", "c", "a", "d", "e", " ", "R", "d", " ", "E", "v", "a", "c", " ", "Z", "o", "n", "e">>

T_kincade == <<"K", "i", "n", "c", "a", "d", "e">>

T_hill_fire == <<"h", "i", "l", "l", " ", "f", "i", "r", "e", " ", "f", "i", "r", "e">>

T_line_fire == <<"L", "i", "n", "e", " ", "F", "i", "r", "e">>

T_line == <<"L", "i", "n", "e">>

T_blank == <<" ">>

\* Primary records (rows of geo_events_geoevent.csv): in California next to
\* zones, in California far from every zone, on the northern border,
\* ungeolocated (0, 0), without coordinates (NaN), with a latitude that is
\* not a number, in Oregon, near Fairbanks.
P_kincade == [id |-> 1, lat |-> 3844, lng |-> -12271, name |-> T_kincade_fire, data |-> "json"]

P_hill == [id |-> 2, lat |-> 3405, lng |-> -11825, name |-> T_hill_fire, data |-> ""]

P_border == [id |-> 3, lat |-> 4200, lng |-> -12000, name |-> T_line_fire, data |-> "garbage"]

P_zero == [id |-> 4, lat |-> 0, lng |-> 0, name |-> T_kincade_fire, data |-> "json"]

P_nan == [id |-> 5, lat |-> NaN, lng |-> NaN, name |-> T_kincade_fire, data |-> ""]

P_text == [id |-> 6, lat |-> NotNumeric, lng |-> -12271, name |-> T_kincade_fire, data |-> "json"]

P_oregon == [id |-> 7, lat |-> 4552, lng |-> -12268, name |-> T_kincade_fire, data |-> "garbage"]

P_fairbanks == [id |-> 8, lat |-> 6484, lng |-> -14772, name |-> <<>>, data |-> ""]

PrimaryKinds == << P_kincade, P_hill, P_zero, P_oregon, P_text, P_border, P_nan, P_fairbanks >>

\* P_kincade with a latitude of zero, and with no longitude.
P_no_lat == [P_kincade EXCEPT !.id = 9, !.lat = 0]

P_no_lng == [P_kincade EXCEPT !.id = 10, !.lng = NaN]

\* A fire at the place of P_kincade under a name no zone shares.
P_line == [P_kincade EXCEPT !.id = 11, !.name = T_line_fire]

\* Evacuation zones (rows of evac_zones_gis_evaczone.csv with the point of
\* their geom_label): 0.86 mile from P_kincade; the same place and name
\* under another uid and no attribution; 13.02 miles east of it; 40 miles
\* north; 25.26 and 24.71 miles east of P_border; in Oregon; at (0, 0);
\* 6.78 miles east of P_fairbanks; 40.10 miles north-east of P_kincade, less
\* than half a degree away in latitude and in longitude.
Z_rd == [uid_v2 |-> "z-rd", extracted_lat |-> 3845, extracted_lng |-> -12270, display_name |-> T_kincade_rd, source_attribution |-> "CalFire", dataset_name |-> "sonoma"]

Z_twin == [uid_v2 |-> "z-twin", extracted_lat |-> 3845, extracted_lng |-> -12270, display_name |-> T_kincade_rd, source_attribution |-> "", dataset_name |-> "sonoma"]

Z_east == [uid_v2 |-> "z-east", extracted_lat |-> 3844, extracted_lng |-> -12247, display_name |-> T_kincade, source_attribution |-> "CalFire", dataset_name |-> "napa"]

Z_far == [uid_v2 |-> "z-far", extracted_lat |-> 3902, extracted_lng |-> -12271, display_name |-> T_kincade_fire, source_attribution |-> "CalFire", dataset_name |-> "lake"]

Z_edge_out == [uid_v2 |-> "z-edge-out", extracted_lat |-> 4200, extracted_lng |-> -11951, display_name |-> T_line, source_attribution |-> "CalFire", dataset_name |-> "modoc"]

Z_edge_in == [uid_v2 |-> "z-edge-in", extracted_lat |-> 4200, extracted_lng |-> -11952, display_name |-> T_line, source_attribution |-> "CalFire", dataset_name |-> "modoc"]

Z_oregon == [uid_v2 |-> "z-oregon", extracted_lat |-> 4553, extracted_lng |-> -12268, display_name |-> T_kincade_fire, source_attribution |-> "ODF", dataset_name |-> "multnomah"]

Z_zero == [uid_v2 |-> "z-zero", extracted_lat |-> 0, extracted_lng |-> 0, display_name |-> T_blank, source_attribution |-> " ", dataset_name |-> ""]

Z_fairbanks == [uid_v2 |-> "z-fairbanks", extracted_lat |-> 6484, extracted_lng |-> -14749, display_name |-> T_kincade, source_attribution |-> "AK", dataset_name |-> "fnsb"]

Z_diag == [uid_v2 |-> "z-diag", extracted_lat |-> 3889, extracted_lng |-> -12224, display_name |-> T_kincade_fire, source_attribution |-> "CalFire", dataset_name |-> "yolo"]

ZoneCatalogue == { Z_rd, Z_twin, Z_east, Z_far, Z_edge_out, Z_edge_in, Z_oregon, Z_zero, Z_fairbanks, Z_diag }

\* The zone file of a pipeline run, in file order.
ZoneFile == << Z_east, Z_rd, Z_twin, Z_oregon, Z_edge_in, Z_far >>

\* ------------------------------------------------------------------- state

VARIABLES
    \* One pipeline run (run_full_integration, run_refined_integration).
    profile,               \* "full" or "refined": which integrator runs
    sources,               \* "ok", or which input file cannot be read
    chunk_size,            \* self.chunk_size
    input,                 \* the rows of the primary file
    external_data,         \* self.external_data['evacuation_zones']
    pc,                    \* where the run is
    stream_pos,            \* rows the chunked reader has handed out
    chunk_num,
    chunk,                 \* the chunk being processed
    chunk_results,         \* enriched_records of process_chunk
    all_enriched_records,
    processed_count,
    enriched_count,
    quality_stats,
    checkpoints,           \* the intermediate_results_chunk_<n>.csv files
    final_output,          \* the final csv: no file, or one
    resumed_from,          \* 0, or the chunk a restarted run resumed from
    \* One scoring run of the matchers on a record and a pool.
    m_pc, primary, pool, outcome,
    \* One run of the name functions on two names.
    n_pc, name1, name2, names_out,
    \* One run of the economic integrator (run_full_economic_integration),
    \* or one call of calculate_impact_index.
    e_pc,                  \* where the run is
    fires_file,            \* the primary file: "ok", "missing", "unreadable"
    fires,                 \* its rows
    fire_pos,              \* rows process_chunk has finished
    now,                   \* time.time(), in tenths of a second
    last_api_call,         \* self.last_api_call of the connector
    api_calls,             \* the requests sent with self.session.get
    zipcode,               \* the zipcode looked up for the current row
    econ_records,          \* all_enriched_records
    econ_output,           \* watch_duty_with_economic_impact.csv: none, or one
    metrics_in,            \* the four dictionaries given to the calculator
    metrics_out            \* what calculate_impact_index returned

pipeline_vars ==
    << profile, sources, chunk_size, input, external_data, pc, stream_pos,
       chunk_num, chunk, chunk_results, all_enriched_records, processed_count,
       enriched_count, quality_stats, checkpoints, final_output, resumed_from >>

match_vars == << m_pc, primary, pool, outcome >>

name_vars == << n_pc, name1, name2, names_out >>

econ_vars ==
    << e_pc, fires_file, fires, fire_pos, now, last_api_call, api_calls,
       zipcode, econ_records, econ_output, metrics_in, metrics_out >>

vars == << pipeline_vars, match_vars, name_vars, econ_vars >>

\* ----------------------------------------------------------- the pipeline

\* Largest chunk size of a run (the program's 5000 and 1000, scaled).
MaxChunkSize == 2

\* `if chunk_num % 10 == 0: save_intermediate_results(...)`
checkpoint_every == 10

NoStats ==
    [total_processed |-> 0, california_only |-> 0, valid_matches |-> 0,
     rejected_distance |-> 0, rejected_geography |-> 0]

\* The primary file of n rows that starts at kind `first` and cycles through
\* the kinds; a row's id is its row number.
PrimaryFile(n, first) ==
    [i \in 1..n |->
        [PrimaryKinds[((first + i - 2) % Len(PrimaryKinds)) + 1]
            EXCEPT !.id = i]]

MatchIdle ==
    /\ m_pc = "off" /\ primary = P_zero /\ pool = <<>> /\ outcome = <<>>

NamesIdle ==
    /\ n_pc = "off" /\ name1 = <<>> /\ name2 = <<>> /\ names_out = <<>>

EconIdle ==
    /\ e_pc = "off" /\ fires_file = "ok" /\ fires = <<>> /\ fire_pos = 0
    /\ now = 0 /\ last_api_call = 0 /\ api_calls = <<>> /\ zipcode = ""
    /\ econ_records = <<>> /\ econ_output = <<>>
    /\ metrics_in = <<>> /\ metrics_out = <<>>

Init ==
    /\ profile \in {"full", "refined"}
    /\ sources \in {"ok", "zones unreadable", "primary unreadable"}
    /\ chunk_size \in 1..MaxChunkSize
    /\ input \in {PrimaryFile(n, first) :
                       n \in 0..MaxRecords, first \in 1..Len(PrimaryKinds)}
    /\ sources = "primary unreadable" => input = << >>
    /\ external_data = <<>>
    /\ pc = "idle"
    /\ stream_pos = 0
    /\ chunk_num = 0
    /\ chunk = <<>>
    /\ chunk_results = <<>>
    /\ all_enriched_records = <<>>
    /\ processed_count = 0
    /\ enriched_count = 0
    /\ quality_stats = NoStats
    /\ checkpoints = <<>>
    /\ final_output = <<>>
    /\ resumed_from = 0
    /\ MatchIdle
    /\ NamesIdle
    /\ EconIdle

\* load_external_data_optimized: the zones of the file (every row of
\* ZoneFile has a POINT geometry); the refined integrator keeps the
\* Californian ones.
load_external_data_optimized(which) ==
    LET InCalifornia(z) == is_in_california(z.extracted_lat, z.extracted_lng)
    IN  IF which = "refined" THEN SelectSeq(ZoneFile, InCalifornia)
        ELSE ZoneFile

\* Reading never raises.
read_never_raises(which) == FALSE

\* Whether pd.read_csv raises before the streaming loop: in
\* load_external_data_optimized on the zone file (and, in the full-scale
\* integrator, on the primary file it scans for PulsePoint rows), or in the
\* count of the chunks of the primary file.
read_raises(which) == which # "ok"

LoadExternal ==
    /\ pc = "idle"
    /\ ~read_raises(sources)
    /\ external_data' = load_external_data_optimized(profile)
    /\ pc' = "loop"
    /\ UNCHANGED << profile, sources, chunk_size, input, stream_pos, chunk_num, chunk,
                    chunk_results, all_enriched_records, processed_count,
                    enriched_count, quality_stats, checkpoints, final_output,
                    resumed_from >>

\* A file cannot be read: pd.read_csv raises, the exception leaves
\* run_full_integration / run_refined_integration, and main() prints it.
\* The zones are loaded when it is the primary file that cannot be read.
LoadFails ==
    /\ pc = "idle"
    /\ read_raises(sources)
    /\ external_data' = IF sources = "primary unreadable"
                        THEN load_external_data_optimized(profile)
                        ELSE << >>
    /\ pc' = "failed"
    /\ UNCHANGED << profile, sources, chunk_size, input, stream_pos,
                    chunk_num, chunk, chunk_results, all_enriched_records,
                    processed_count, enriched_count, quality_stats,
                    checkpoints, final_output, resumed_from >>

\* The next chunk of pd.read_csv(primary_path, chunksize=self.chunk_size).
next_chunk(rows, pos, size) == SubSeq(rows, pos + 1, Min(pos + size, Len(rows)))

\* The head of the streaming loop: the reader hands out a chunk and
\* process_chunk starts on it.
ReadChunk ==
    /\ pc = "loop"
    /\ stream_pos < Len(input)
    /\ chunk_num' = chunk_num + 1
    /\ chunk' = next_chunk(input, stream_pos, chunk_size)
    /\ stream_pos' = stream_pos + Len(chunk')
    /\ chunk_results' = <<>>
    /\ pc' = "chunk"
    /\ UNCHANGED << profile, sources, chunk_size, input, external_data,
                    all_enriched_records, processed_count, enriched_count,
                    quality_stats, checkpoints, final_output, resumed_from >>

\* One turn of the record loop of either integrator: the record it appends
\* and what it adds to quality_stats (the full-scale integrator keeps none).
record_turn(which, record, zones) ==
    IF which = "refined" THEN process_record_refined(record, zones)
    ELSE [refined_skipped(record) EXCEPT !.out = process_record(record, zones)]

\* One turn of the record loop of process_chunk / process_chunk_refined.
ProcessRecord ==
    /\ pc = "chunk"
    /\ Len(chunk_results) < Len(chunk)
    /\ \E r \in {record_turn(profile, chunk[Len(chunk_results) + 1],
                              external_data)} :
          /\ chunk_results' = Append(chunk_results, r.out)
          /\ quality_stats' =
                 [f \in DOMAIN quality_stats |-> quality_stats[f] + r[f]]
    /\ UNCHANGED << profile, sources, chunk_size, input, external_data, pc, stream_pos,
                    chunk_num, chunk, all_enriched_records, processed_count,
                    enriched_count, checkpoints, final_output, resumed_from >>

\* The accumulated list replaced by the chunk's results instead of extended.
extend_overwrites(records, results) == results

\* all_enriched_records.extend(chunk_results)
extend(records, results) == records \o results

\* sum(1 for r in chunk_results if r.get('enrichment_sources'))
chunk_enriched(results) ==
    Cardinality({i \in 1..Len(results) :
                    /\ "enrichment_sources" \in DOMAIN results[i]
                    /\ results[i].enrichment_sources # <<>>})

\* process_chunk returns; the loop extends the accumulated records and
\* updates the counts.
EndChunk ==
    /\ pc = "chunk"
    /\ Len(chunk_results) = Len(chunk)
    /\ all_enriched_records' = extend(all_enriched_records, chunk_results)
    /\ processed_count' = processed_count + Len(chunk)
    /\ enriched_count' = enriched_count + chunk_enriched(chunk_results)
    /\ pc' = "boundary"
    /\ UNCHANGED << profile, sources, chunk_size, input, external_data, stream_pos,
                    chunk_num, chunk, chunk_results, quality_stats, checkpoints,
                    final_output, resumed_from >>

\* The save test with twice the period.
saves_after_twenty(which, n) ==
    which = "full" /\ n % (2 * checkpoint_every) = 0

\* Whether the loop saves after this chunk: run_full_integration does every
\* 10 chunks, run_refined_integration never saves.
saves_after(which, n) == which = "full" /\ n % checkpoint_every = 0

\* The intermediate file written without its first row.
save_without_first_row(results, n) ==
    [chunk_num |-> n, records |-> Tail(results)]

\* save_intermediate_results(all_enriched_records, chunk_num): the file
\* intermediate_results_chunk_<chunk_num>.csv.
save_intermediate_results(results, n) == [chunk_num |-> n, records |-> results]

\* The intermediate file named after the number of files written so far
\* instead of the chunk.
save_keyed_by_count ==
    /\ pc = "boundary"
    /\ saves_after(profile, chunk_num)
    /\ checkpoints' = Append(checkpoints,
                             save_intermediate_results(all_enriched_records,
                                                       Len(checkpoints) + 1))
    /\ pc' = "loop"
    /\ UNCHANGED << profile, sources, chunk_size, input, external_data, stream_pos,
                    chunk_num, chunk, chunk_results, all_enriched_records,
                    processed_count, enriched_count, quality_stats,
                    final_output, resumed_from >>

SaveIntermediate ==
    /\ pc = "boundary"
    /\ saves_after(profile, chunk_num)
    /\ checkpoints' = Append(checkpoints,
                             save_intermediate_results(all_enriched_records,
                                                       chunk_num))
    /\ pc' = "loop"
    /\ UNCHANGED << profile, sources, chunk_size, input, external_data, stream_pos,
                    chunk_num, chunk, chunk_results, all_enriched_records,
                    processed_count, enriched_count, quality_stats,
                    final_output, resumed_from >>

\* The end of a loop turn that saves nothing.
NextTurn ==
    /\ pc = "boundary"
    /\ ~saves_after(profile, chunk_num)
    /\ pc' = "loop"
    /\ UNCHANGED << profile, sources, chunk_size, input, external_data, stream_pos,
                    chunk_num, chunk, chunk_results, all_enriched_records,
                    processed_count, enriched_count, quality_stats, checkpoints,
                    final_output, resumed_from >>

\* The final csv written at the head of any loop turn.
finalize_before_the_end ==
    /\ pc = "loop"
    /\ final_output' = << all_enriched_records >>
    /\ pc' = "done"
    /\ UNCHANGED << profile, sources, chunk_size, input, external_data, stream_pos,
                    chunk_num, chunk, chunk_results, all_enriched_records,
                    processed_count, enriched_count, quality_stats, checkpoints,
                    resumed_from >>

\* The reader is exhausted: pd.DataFrame(all_enriched_records).to_csv(...).
Finalize ==
    /\ pc = "loop"
    /\ stream_pos = Len(input)
    /\ final_output' = << all_enriched_records >>
    /\ pc' = "done"
    /\ UNCHANGED << profile, sources, chunk_size, input, external_data, stream_pos,
                    chunk_num, chunk, chunk_results, all_enriched_records,
                    processed_count, enriched_count, quality_stats, checkpoints,
                    resumed_from >>

\* A KeyboardInterrupt that reaches main(): main() catches it, prints a
\* message and returns; nothing is written.
Interrupt ==
    /\ pc \in {"idle", "loop", "chunk", "boundary"}
    /\ pc' = "interrupted"
    /\ UNCHANGED << profile, sources, chunk_size, input, external_data, stream_pos,
                    chunk_num, chunk, chunk_results, all_enriched_records,
                    processed_count, enriched_count, quality_stats, checkpoints,
                    final_output, resumed_from >>

\* A restart from a checkpoint, as the specification describes it (the
\* integrators have no such entry point): a fresh run takes the records of
\* the checkpoint of chunk k as its accumulated records and processes chunk
\* k and every later chunk.
Resume ==
    /\ pc = "interrupted"
    /\ resumed_from = 0
    /\ \E i \in 1..Len(checkpoints) :
          LET k == checkpoints[i].chunk_num
          IN  /\ all_enriched_records' = checkpoints[i].records
              /\ chunk_num' = k - 1
              /\ stream_pos' = (k - 1) * chunk_size
              /\ resumed_from' = k
    /\ external_data' = load_external_data_optimized(profile)
    /\ chunk' = <<>>
    /\ chunk_results' = <<>>
    /\ processed_count' = 0
    /\ enriched_count' = 0
    /\ quality_stats' = NoStats
    /\ pc' = "loop"
    /\ UNCHANGED << profile, sources, chunk_size, input, checkpoints, final_output >>

Next ==
    /\ \/ LoadExternal
       \/ LoadFails
       \/ ReadChunk
       \/ ProcessRecord
       \/ EndChunk
       \/ SaveIntermediate
       \/ NextTurn
       \/ Finalize
       \/ Interrupt
       \/ Resume
    /\ UNCHANGED << match_vars, name_vars, econ_vars >>

Spec == Init /\ [][Next]_vars

\* ----------------------------------------------- properties of the pipeline

\* The ids of a list of records, as a set.
IdSet(records) == { records[i].id : i \in 1..Len(records) }

\* How many records of the list carry the id.
Copies(records, id) ==
    Cardinality({ i \in 1..Len(records) : records[i].id = id })

\* C1: completeness.  When run_full_integration / run_refined_integration
\* finishes, the final output holds every record of the primary input
\* exactly once.
C1_Completeness ==
    (pc = "done" /\ resumed_from = 0) =>
        /\ Len(final_output) = 1
        /\ Len(final_output[1]) = Len(input)
        /\ \A i \in 1..Len(input) : Copies(final_output[1], input[i].id) = 1

\* A run over every kind of record and several chunks has finished, with
\* matched and unmatched records in its output.
C1_Witness ==
    /\ pc = "done" /\ resumed_from = 0
    /\ Len(input) >= Len(PrimaryKinds)
    /\ chunk_num > 1
    /\ \E i \in 1..Len(final_output[1]) :
          "evacuation_zone" \in DOMAIN final_output[1][i]
    /\ \E i \in 1..Len(final_output[1]) :
          "evacuation_zone" \notin DOMAIN final_output[1][i]

\* The records processed so far: the accumulated ones and those of the chunk
\* in process.
ProcessedSoFar ==
    all_enriched_records \o (IF pc = "chunk" THEN chunk_results ELSE << >>)

\* The ids of the records in the most recent checkpoint.
LastCheckpointIds ==
    IF checkpoints = << >> THEN {}
    ELSE IdSet(checkpoints[Len(checkpoints)].records)

\* The chunk a row of the primary file belongs to.
ChunkOf(id) == ((id - 1) \div chunk_size) + 1

\* The chunks with processed records that the most recent checkpoint does
\* not hold.
UnsavedChunks ==
    { ChunkOf(id) : id \in IdSet(ProcessedSoFar) \ LastCheckpointIds }

\* C6 as stated: at every moment the processed records that the most
\* recent checkpoint does not hold belong to at most one chunk.
C6_AtMostOneChunk == Cardinality(UnsavedChunks) <= 1

\* C6, amended: in the full-scale integrator the processed records that the
\* most recent checkpoint does not hold belong to at most 10 chunks (it
\* saves when chunk_num % 10 = 0); the refined integrator writes no
\* checkpoint at all.
C6_AtMostTenChunks ==
    /\ profile = "full" => Cardinality(UnsavedChunks) <= checkpoint_every
    /\ profile = "refined" => checkpoints = << >>

\* Ten chunks are processed and not yet saved, after an earlier checkpoint.
C6_Witness ==
    /\ profile = "full"
    /\ checkpoints # << >>
    /\ Cardinality(UnsavedChunks) = checkpoint_every

\* C7: cancellation.  When the run is interrupted, every record accumulated
\* at that moment is in a checkpoint.
C7_FlushOnInterrupt ==
    (pc = "interrupted" /\ resumed_from = 0) =>
        IdSet(all_enriched_records) \subseteq LastCheckpointIds

\* The output of one uninterrupted run over the input, record by record.
UninterruptedOutput ==
    [i \in 1..Len(input) |->
        record_turn(profile, input[i],
                    load_external_data_optimized(profile)).out]

RecordSet(records) == { records[i] : i \in 1..Len(records) }

PipelineIdle ==
    /\ profile = "full" /\ sources = "ok" /\ chunk_size = 1 /\ input = <<>>
    /\ external_data = <<>> /\ pc = "off" /\ stream_pos = 0 /\ chunk_num = 0
    /\ chunk = <<>> /\ chunk_results = <<>> /\ all_enriched_records = <<>>
    /\ processed_count = 0 /\ enriched_count = 0 /\ quality_stats = NoStats
    /\ checkpoints = <<>> /\ final_output = <<>> /\ resumed_from = 0

\* The pools of at most n zones, in every order.
RECURSIVE Pools(_)
Pools(n) ==
    IF n = 0 THEN { <<>> }
    ELSE Pools(n - 1)
         \cup { Append(q, z) : q \in { r \in Pools(n - 1) : Len(r) = n - 1 },
                               z \in ZoneCatalogue }

InitMatch ==
    /\ PipelineIdle
    /\ NamesIdle
    /\ EconIdle
    /\ m_pc = "ready"
    /\ primary \in { PrimaryKinds[i] : i \in 1..Len(PrimaryKinds) }
                    \cup { P_no_lat, P_no_lng, P_line }
    /\ pool \in Pools(MaxPool)
    /\ outcome = <<>>

\* GeographicValidator.validate_match of the record against each zone of the
\* pool, as calculate_match_score calls it.
Validate ==
    /\ m_pc = "ready"
    /\ ~FloatRaises(primary.lat) /\ ~FloatRaises(primary.lng)
    /\ outcome' = [i \in 1..Len(pool) |->
                      validate_match(primary.lat, primary.lng,
                                     pool[i].extracted_lat,
                                     pool[i].extracted_lng,
                                     refined_max_distance_miles)]
    /\ m_pc' = "validated"
    /\ UNCHANGED << primary, pool >>

\* RefinedEntityMatcher.calculate_match_score of the record against each zone.
ScoreRefined ==
    /\ m_pc = "ready"
    /\ outcome' = [i \in 1..Len(pool) |->
                      calculate_match_score_refined(primary, pool[i])]
    /\ m_pc' = "scored_refined"
    /\ UNCHANGED << primary, pool >>

\* OptimizedEntityMatcher.calculate_match_score of the record against each
\* zone.
ScoreOptimized ==
    /\ m_pc = "ready"
    /\ outcome' = [i \in 1..Len(pool) |->
                      calculate_match_score_optimized(primary, pool[i])]
    /\ m_pc' = "scored_optimized"
    /\ UNCHANGED << primary, pool >>

\* OptimizedEntityMatcher.spatial_prefilter as find_evacuation_matches calls
\* it, after float() of the record's coordinates.
Prefilter ==
    /\ m_pc = "ready"
    /\ ~FloatRaises(primary.lat) /\ ~FloatRaises(primary.lng)
    /\ outcome' = spatial_prefilter(primary.lat, primary.lng, pool,
                                    full_prefilter_miles)
    /\ m_pc' = "prefiltered"
    /\ UNCHANGED << primary, pool >>

\* RefinedIntegrator.find_evacuation_matches_refined.
MatchRefined ==
    /\ m_pc = "ready"
    /\ outcome' = find_evacuation_matches_refined(primary, pool)
    /\ m_pc' = "matched_refined"
    /\ UNCHANGED << primary, pool >>

\* FullScaleIntegrator.find_evacuation_matches.
MatchFull ==
    /\ m_pc = "ready"
    /\ outcome' = find_evacuation_matches(primary, pool)
    /\ m_pc' = "matched_full"
    /\ UNCHANGED << primary, pool >>

\* One turn of the record loop of FullScaleIntegrator.process_chunk, the
\* pool being the loaded zones.
ProcessFull ==
    /\ m_pc = "ready"
    /\ outcome' = record_turn("full", primary, pool)
    /\ m_pc' = "processed_full"
    /\ UNCHANGED << primary, pool >>

\* One turn of the record loop of RefinedIntegrator.process_chunk_refined.
ProcessRefined ==
    /\ m_pc = "ready"
    /\ outcome' = record_turn("refined", primary, pool)
    /\ m_pc' = "processed_refined"
    /\ UNCHANGED << primary, pool >>

\* The list of MatchResult of the match search of either integrator.
match_search(which, record, zones) ==
    IF which = "refined"
    THEN find_evacuation_matches_refined(record, zones).matches
    ELSE find_evacuation_matches(record, zones)

\* The records searched between two searches of the record of the run.
OtherRecords == { P_kincade, P_border, P_text }

\* The search of another record that takes the first zone out of the pool.
search_other_consuming ==
    /\ m_pc \in {"matched_refined", "matched_full"}
    /\ \E other \in OtherRecords :
          outcome' =
              IF m_pc = "matched_refined"
              THEN [which |-> "refined", first |-> outcome.matches,
                    between |-> match_search("refined", other, pool)]
              ELSE [which |-> "full", first |-> outcome,
                    between |-> match_search("full", other, pool)]
    /\ m_pc' = "searched_other"
    /\ pool' = IF pool = << >> THEN pool ELSE Tail(pool)
    /\ UNCHANGED primary

\* After the search of the record, the same integrator searches another
\* record: the search reads self.external_data['evacuation_zones'] and
\* leaves it as it is.
SearchOther ==
    /\ m_pc \in {"matched_refined", "matched_full"}
    /\ \E other \in OtherRecords :
          outcome' =
              IF m_pc = "matched_refined"
              THEN [which |-> "refined", first |-> outcome.matches,
                    between |-> match_search("refined", other, pool)]
              ELSE [which |-> "full", first |-> outcome,
                    between |-> match_search("full", other, pool)]
    /\ m_pc' = "searched_other"
    /\ UNCHANGED << primary, pool >>

\* The integrator searches the record of the run a second time.
SearchAgain ==
    /\ m_pc = "searched_other"
    /\ outcome' = [which |-> outcome.which, first |-> outcome.first,
                   between |-> outcome.between,
                   again |-> match_search(outcome.which, primary, pool)]
    /\ m_pc' = "searched_again"
    /\ UNCHANGED << primary, pool >>

\* FullScaleIntegrator.enrich_record on the record and the matches the
\* search returned for it.
EnrichFull ==
    /\ m_pc = "matched_full"
    /\ outcome' = [record |-> primary, matches |-> outcome,
                   out |-> enrich_record(primary, outcome)]
    /\ m_pc' = "enriched_full"
    /\ UNCHANGED << primary, pool >>

\* RefinedIntegrator.enrich_record_refined on the record and the matches
\* the search returned for it.
EnrichRefined ==
    /\ m_pc = "matched_refined"
    /\ outcome' = [record |-> primary, matches |-> outcome.matches,
                   out |-> enrich_record_refined(primary, outcome.matches)]
    /\ m_pc' = "enriched_refined"
    /\ UNCHANGED << primary, pool >>

\* Distances within the 25 miles of the refined matcher, in hundredths of a
\* mile, on both sides of the 5 and 15 mile boundaries of its curve.
DistanceGrid ==
    { 0, 86, 250, 400, 499, 500, 501, 600, 1000, 1499, 1500, 1501, 2000,
      2499, 2500 }

\* The geographic score of calculate_match_score for two distances, the
\* first not greater than the second.
CompareGeoScores ==
    /\ m_pc = "ready"
    /\ pool = << >>
    /\ primary = P_kincade
    /\ \E d1 \in DistanceGrid, d2 \in DistanceGrid :
          /\ d1 <= d2
          /\ outcome' = [near |-> d1, far |-> d2,
                         near_score |-> refined_geo_score(d1),
                         far_score  |-> refined_geo_score(d2)]
    /\ m_pc' = "geo_compared"
    /\ UNCHANGED << primary, pool >>

NextMatch ==
    /\ \/ Validate
       \/ ScoreRefined
       \/ ScoreOptimized
       \/ Prefilter
       \/ MatchRefined
       \/ MatchFull
       \/ ProcessFull
       \/ ProcessRefined
       \/ SearchOther
       \/ SearchAgain
       \/ EnrichFull
       \/ EnrichRefined
       \/ CompareGeoScores
    /\ UNCHANGED << pipeline_vars, name_vars, econ_vars >>

SpecMatch == InitMatch /\ [][NextMatch]_vars

\* A step of one run in the order of its phases: the pools are loaded from
\* the idle state only, and a chunk is read only once they are; the chunk
\* index goes up by one, at the head of the loop, the chunk before it
\* finished; a checkpoint is written at a chunk boundary and is the
\* checkpoint of that chunk; the final output is written when every row
\* has been read and processed; nothing happens once it is written.
PhaseStep ==
    /\ external_data' # external_data => pc = "idle"
    /\ chunk_num' # chunk_num =>
           /\ pc = "loop" /\ pc' = "chunk"
           /\ chunk_num' = chunk_num + 1
           /\ Len(chunk_results) = Len(chunk)
    /\ chunk_results' # chunk_results => pc = "chunk" \/ pc' = "chunk"
    /\ checkpoints' # checkpoints =>
           /\ pc = "boundary"
           /\ Len(chunk_results) = Len(chunk)
           /\ Len(checkpoints') = Len(checkpoints) + 1
           /\ checkpoints'[Len(checkpoints')].chunk_num = chunk_num
    /\ final_output' # final_output =>
           /\ pc = "loop"
           /\ stream_pos = Len(input)
           /\ Len(chunk_results) = Len(chunk)
    /\ final_output # << >> => UNCHANGED pipeline_vars

\* C17: phase ordering.  In a run (the steps of a restart from a checkpoint
\* aside), the pools are loaded before the first chunk, chunks are processed
\* one at a time in increasing index, a checkpoint is written only at a
\* chunk boundary, the final output only after the last chunk, and no step
\* of an earlier phase follows a later phase.
C17_PhaseOrder == [][resumed_from' = resumed_from => PhaseStep]_vars

\* A run that went through every phase: pools loaded, at least ten chunks,
\* a checkpoint, the final output.
C17_Witness ==
    /\ pc = "done"
    /\ resumed_from = 0
    /\ external_data # << >>
    /\ chunk_num >= checkpoint_every
    /\ checkpoints # << >>
    /\ final_output # << >>

\* C18: fatal input failure.  When the primary file or the zone file cannot
\* be read, the run stops before it processes a row, and it writes neither a
\* checkpoint nor the final output; the same holds of the economic run when
\* its primary file is missing or cannot be read.
C18_FatalInput ==
    /\ sources # "ok" =>
           /\ pc \in {"idle", "failed", "interrupted"}
           /\ chunk_num = 0 /\ stream_pos = 0 /\ processed_count = 0
           /\ chunk_results = << >> /\ all_enriched_records = << >>
           /\ checkpoints = << >> /\ final_output = << >>
    /\ fires_file # "ok" =>
           /\ e_pc \in {"start", "not_found", "failed"}
           /\ fire_pos = 0 /\ api_calls = << >>
           /\ econ_records = << >> /\ econ_output = << >>

\* A run has stopped on a zone file it could not read, with rows waiting
\* in the primary file.
C18_Witness ==
    /\ pc = "failed"
    /\ sources = "zones unreadable"
    /\ input # << >>
    /\ external_data = << >>

\* ------------------------------------------------ properties of the matchers

\* The exact distance from the record of the run to a zone.
DistanceTo(zone) ==
    calculate_distance_miles(primary.lat, primary.lng,
                             zone.extracted_lat, zone.extracted_lng)

\* Every zone of the pool that carries the uid is within `limit`.
WithinLimit(uid, limit) ==
    \A i \in 1..Len(pool) :
        pool[i].uid_v2 = uid => DistanceTo(pool[i]) <= limit

\* C2: hard distance gate.  The match either integrator selects is never a
\* zone farther from the record than the maximum distance (25 miles refined,
\* 10 miles full-scale), whatever its name similarity, and validate_match
\* reports is_valid only for two points inside California at most
\* max_distance_miles apart.
C2_HardDistanceGate ==
    /\ m_pc = "matched_refined" =>
          \A k \in 1..Len(outcome.matches) :
              WithinLimit(outcome.matches[k].external_id,
                          refined_max_distance_miles)
    /\ m_pc = "matched_full" =>
          \A k \in 1..Len(outcome) :
              WithinLimit(outcome[k].external_id, full_match_miles)
    /\ m_pc = "validated" =>
          \A i \in 1..Len(pool) :
              outcome[i].is_valid =>
                  /\ is_in_california(primary.lat, primary.lng)
                  /\ is_in_california(pool[i].extracted_lat,
                                      pool[i].extracted_lng)
                  /\ DistanceTo(pool[i]) <= refined_max_distance_miles

\* A match is selected although the pool holds a zone of the very same name
\* beyond the maximum distance.
C2_Witness ==
    /\ m_pc = "matched_refined"
    /\ outcome.matches # <<>>
    /\ \E i \in 1..Len(pool) :
          /\ DistanceTo(pool[i]) > refined_max_distance_miles
          /\ DistanceTo(pool[i]) < Infinity
          /\ name_similarity_score(primary.name, pool[i].display_name) = SCALE

\* C3: no false negatives in the spatial prefilter.  For a geolocated query
\* point, every zone of the pool whose exact distance is at most
\* max_distance_miles is returned by spatial_prefilter, and every zone the
\* refined matcher would validate (within 25 miles) is inside the refined
\* integrator's 0.5-degree box.
C3_PrefilterNoFalseNegatives ==
    /\ (m_pc = "prefiltered" /\ ~Falsy(primary.lat) /\ ~Falsy(primary.lng)) =>
          \A i \in 1..Len(pool) :
              DistanceTo(pool[i]) <= full_prefilter_miles =>
                  \E j \in 1..Len(outcome) : outcome[j] = pool[i]
    /\ m_pc = "scored_refined" =>
          \A i \in 1..Len(pool) :
              outcome[i].is_valid =>
                  refined_nearby_zones(primary.lat, primary.lng,
                                       << pool[i] >>) # <<>>

\* The candidates find_evacuation_matches_refined may select: valid and at
\* or above the confidence threshold.
Eligible(scores) ==
    { i \in 1..Len(scores) :
        /\ scores[i].is_valid
        /\ scores[i].score >= Tenths(refined_confidence_threshold) }

\* Candidate i has the highest confidence of the eligible ones and is the
\* earliest of those that have it.
IsBest(scores, i) ==
    /\ i \in Eligible(scores)
    /\ \A j \in Eligible(scores) :
          \/ scores[j].score < scores[i].score
          \/ scores[j].score = scores[i].score /\ i <= j

\* The list of matches is the selection the claim describes.
IsSelection(matches, scores) ==
    /\ Len(matches) <= 1
    /\ Eligible(scores) = {} => matches = <<>>
    /\ Eligible(scores) # {} =>
          /\ Len(matches) = 1
          /\ \E i \in 1..Len(scores) :
                /\ IsBest(scores, i)
                /\ matches[1].external_id = pool[i].uid_v2
                /\ matches[1].confidence_score = scores[i].score

\* C4: candidate selection.  find_evacuation_matches_refined returns at most
\* one MatchResult; it is the valid candidate of highest confidence among
\* those at or above the threshold, the earliest in pool order among equals,
\* and there is none when no valid candidate reaches the threshold.
C4_Selection ==
    m_pc = "matched_refined" =>
        IsSelection(outcome.matches,
                    [i \in 1..Len(pool) |->
                        calculate_match_score_refined(primary, pool[i])])

\* Two zones of different uid tie at the highest confidence and the earlier
\* one is the match.
TieKeptFirst(matches, scores) ==
    \E i, j \in Eligible(scores) :
        /\ i < j
        /\ IsBest(scores, i)
        /\ scores[j].score = scores[i].score
        /\ pool[i].uid_v2 # pool[j].uid_v2
        /\ matches # << >>
        /\ matches[1].external_id = pool[i].uid_v2

C4_Witness ==
    /\ m_pc = "matched_refined"
    /\ TieKeptFirst(outcome.matches,
                    [i \in 1..Len(pool) |->
                        calculate_match_score_refined(primary, pool[i])])

InUnit(x) == 0 <= x /\ x <= SCALE

FactorsInUnit(factors) ==
    /\ InUnit(factors.name)
    /\ InUnit(factors.geographic)
    /\ InUnit(factors.temporal)

\* C5: score ranges.  Both calculate_match_score functions return a
\* confidence in [0, 1] and three factors in [0, 1]; the distance the
\* refined one returns is >= 0 or the +infinity sentinel.
C5_ScoreRanges ==
    /\ m_pc = "scored_refined" =>
          \A i \in 1..Len(pool) :
              /\ InUnit(outcome[i].score)
              /\ FactorsInUnit(outcome[i].factors)
              /\ outcome[i].distance = Infinity \/ outcome[i].distance >= 0
    /\ m_pc = "scored_optimized" =>
          \A i \in 1..Len(pool) :
              /\ InUnit(outcome[i].score)
              /\ FactorsInUnit(outcome[i].factors)

\* A pool scored with one pair accepted in the middle piece of the
\* geographic curve and one pair without a distance.
C5_Witness ==
    /\ m_pc = "scored_refined"
    /\ \E i \in 1..Len(pool) :
          /\ outcome[i].is_valid
          /\ outcome[i].distance > 500 /\ outcome[i].distance <= 1500
          /\ outcome[i].score > 0
    /\ \E j \in 1..Len(pool) : outcome[j].distance = Infinity

\* ------------------------------------------------------ the name functions

\* Pieces of incident and zone names: a word, a trailing "fire", a dash, a
\* number with leading zeros, an abbreviation in parentheses, a synonym, a
\* source prefix.
F_x == <<"x">>

F_fire == <<" ", "f", "i", "r", "e">>

F_dash == <<"-">>

F_number == <<" ", "0", "0", "7">>

F_hwy == <<"(", "H", "w", "y", ")">>

F_burn == <<" ", "p", "r", "e", "s", "c", "r", "i", "b", "e", "d", " ", "b", "u", "r", "n">>

F_prefix == <<"c", "a", "-", "l", "n", "u", "-">>

Fragments == { F_x, F_fire, F_dash, F_number, F_hwy, F_burn, F_prefix }

N_x_fire == <<"x", " ", "f", "i", "r", "e">>

N_highway == <<"h", "i", "g", "h", "w", "a", "y", " ", "x", " ", "7">>

N_rx == <<"R", "x", " ", "b">>

\* The names a name is compared with; the empty one is a missing name.
OtherNames == { << >>, N_x_fire, N_highway, N_rx }

\* The names made of at most n fragments.
RECURSIVE Names(_)
Names(n) ==
    IF n = 0 THEN { <<>> }
    ELSE Names(n - 1) \cup { a \o f : a \in Names(n - 1), f \in Fragments }

InitName ==
    /\ PipelineIdle
    /\ MatchIdle
    /\ EconIdle
    /\ n_pc = "ready"
    /\ name1 \in Names(MaxFrags)
    /\ name2 \in OtherNames
    /\ names_out = <<>>

\* canonicalize_name(name1).
Canonicalize ==
    /\ n_pc = "ready"
    /\ names_out' = << canonicalize_name(name1) >>
    /\ n_pc' = "canonical"
    /\ UNCHANGED << name1, name2 >>

\* canonicalize_name of the canonical form.
Recanonicalize ==
    /\ n_pc = "canonical"
    /\ names_out' = Append(names_out, canonicalize_name(names_out[1]))
    /\ n_pc' = "recanonical"
    /\ UNCHANGED << name1, name2 >>

\* name_similarity_score of the two names in both orders, and of the first
\* name with itself.
Compare ==
    /\ n_pc = "ready"
    /\ names_out' = << name_similarity_score(name1, name2),
                       name_similarity_score(name2, name1),
                       name_similarity_score(name1, name1) >>
    /\ n_pc' = "compared"
    /\ UNCHANGED << name1, name2 >>

NextName ==
    /\ \/ Canonicalize
       \/ Recanonicalize
       \/ Compare
    /\ UNCHANGED << pipeline_vars, match_vars, econ_vars >>

SpecName == InitName /\ [][NextName]_vars

\* ------------------------------------------- properties of the name functions

\* C9: canonicalize_name is idempotent: canonicalizing a canonical form
\* returns it unchanged.
C9_Idempotent ==
    n_pc = "recanonical" => names_out[2] = names_out[1]

\* The canonicalized token set of a name.
Tokens(name) == TokenSet(Split(canonicalize_name(name)))

\* |A n B| / |A u B|, and 0 when either set is empty.
Jaccard(A, B) ==
    IF A = {} \/ B = {} THEN 0
    ELSE (SCALE * Cardinality(A \cap B)) \div Cardinality(A \cup B)

\* C10: name_similarity_score is symmetric, is 1.0 for a name with itself
\* when the name canonicalizes to a non-empty token set, is 0 when either
\* name canonicalizes to no tokens, and is always the Jaccard index of the
\* two canonicalized token sets.
C10_Similarity ==
    n_pc = "compared" =>
        /\ names_out[1] = names_out[2]
        /\ Tokens(name1) # {} => names_out[3] = SCALE
        /\ (Tokens(name1) = {} \/ Tokens(name2) = {}) => names_out[1] = 0
        /\ names_out[1] = Jaccard(Tokens(name1), Tokens(name2))

\* Two names that share some but not all tokens, the first with a token
\* repeated, have been compared.
C10_Witness ==
    /\ n_pc = "compared"
    /\ names_out[1] > 0 /\ names_out[1] < SCALE
    /\ Len(Split(canonicalize_name(name1))) > Cardinality(Tokens(name1))

\* A record whose latitude or longitude is zero or absent.
Ungeolocated(record) ==
    \/ record.lat = 0 \/ IsNaN(record.lat)
    \/ record.lng = 0 \/ IsNaN(record.lng)

\* The fields enrich_record and enrich_record_refined add.
EnrichmentKeys ==
    { "enrichment_sources", "enrichment_log", "match_confidence_avg",
      "quality_flags", "evacuation_zone", "evacuation_source",
      "evacuation_dataset", "evacuation_distance_miles" }

\* The record `out` has every field of `record` with its value and no
\* enrichment field.
Unenriched(record, out) ==
    /\ DOMAIN out \cap EnrichmentKeys = {}
    /\ \A f \in DOMAIN record : f \in DOMAIN out /\ out[f] = record[f]

\* C12: a record whose latitude or longitude is zero or absent gets no match
\* from either search, and the record loop of either integrator emits it
\* with its own fields and no enrichment field.
C12_PassThrough ==
    Ungeolocated(primary) =>
        /\ m_pc = "matched_full" => outcome = << >>
        /\ m_pc = "matched_refined" => outcome.matches = << >>
        /\ m_pc \in {"processed_full", "processed_refined"} =>
               Unenriched(primary, outcome.out)

\* The full-scale record loop has emitted the record at (0, 0) while a zone
\* at (0, 0) is loaded.
C12_Witness ==
    /\ m_pc = "processed_full"
    /\ primary = P_zero
    /\ \E i \in 1..Len(pool) : pool[i] = Z_zero

\* The refined record loop has emitted the record without longitude while
\* the zone next to its latitude is loaded.
C12_WitnessRefined ==
    /\ m_pc = "processed_refined"
    /\ primary = P_no_lng
    /\ \E i \in 1..Len(pool) : pool[i] = Z_rd

\* The weighted score 0.4 * name + 0.4 * geo + 0.2 * temporal of a pair,
\* computed whatever the name score is.
weighted_without_exit(primary_record, external_record) ==
    optimized_composite(name_similarity_score(primary_record.name,
                                              external_record.display_name),
                        optimized_geo(primary_record, external_record),
                        SCALE \div 2).score

\* `score >= self.confidence_threshold` of the full-scale integrator.
accepted_at_threshold(score) == 10 * score >= full_confidence_threshold * SCALE

\* C13: the early exit of OptimizedEntityMatcher.calculate_match_score on a
\* name score under 0.1 changes no decision: for every pair, the score it
\* returns reaches the confidence threshold 0.3 exactly when the weighted
\* score computed without the early exit does.
C13_EarlyExitKeepsDecision ==
    m_pc = "scored_optimized" =>
        \A i \in 1..Len(pool) :
            accepted_at_threshold(outcome[i].score)
                <=> accepted_at_threshold(weighted_without_exit(primary, pool[i]))

\* C14: the geographic score of a valid pair follows the curve: 1.0 at
\* distance 0 with a linear decay to 0.2 at 5 miles, a linear decay from 0.8
\* to 0.2 between 5 and 15 miles, at most 0.2 from 15 miles to the maximum
\* of 25, and never negative.
C14_GeoCurve ==
    m_pc = "scored_refined" =>
        \A i \in 1..Len(pool) :
            outcome[i].is_valid =>
                LET d == outcome[i].distance
                    g == outcome[i].factors.geographic
                IN  /\ g >= 0
                    /\ d = 0 => g = SCALE
                    /\ d <= 500 => g = SCALE - d * ((8 * SCALE) \div 5000)
                    /\ (d > 500 /\ d <= 1500) =>
                           g = Tenths(8) - (d - 500) * ((6 * SCALE) \div 10000)
                    /\ d > 1500 => g <= Tenths(2)

ONE == 100 * 1000

\* tourism_dependency * 0.7 + min(1.0, lodging_establishments_count / 50.0) * 0.3
tourism_exposure(tourism_data) ==
    700 * tourism_data.tourism_dependency_index
        + 600 * Min(50, tourism_data.lodging_establishments_count)

\* no_vehicle_pct * 0.4 + elderly_pct * 0.3 + mobility_impaired_pct * 0.3
evacuation_constraints(evacuation_data) ==
    400 * evacuation_data.households_no_vehicle_pct
        + 300 * evacuation_data.elderly_population_pct
        + 300 * evacuation_data.mobility_impaired_pct

\* min(1.0, k12_student_density / 100.0) * 0.4 + caregiver_employment_pct * 0.4
\*     + min(1.0, k12_schools_count / 20.0) * 0.2
educational_disruption(education_data) ==
    40 * Min(1000, education_data.k12_student_density)
        + 400 * education_data.caregiver_employment_pct
        + 1000 * Min(20, education_data.k12_schools_count)

\* 0.50 * tourism_exposure + 0.30 * small_business_vulnerability
\*     + 0.20 * educational_disruption
impact_index(tourism, business, education) ==
    (5 * tourism + 3 * business + 2 * education) \div 10

\* The index bounded below only.
clamp_from_below(index) == Max(0, index)

\* min(1.0, max(0.0, impact_index))
clamp(index) == Min(ONE, Max(0, index))

\* The dictionary of the `except Exception` branches.
ZeroMetrics ==
    [economic_impact_index |-> 0, tourism_exposure_score |-> 0,
     small_business_vulnerability_score |-> 0,
     evacuation_constraints_score |-> 0, educational_disruption_score |-> 0]

\* Whether the arithmetic of calculate_impact_index raises: a value that is
\* not a number (a string, None) in a field it computes with.
metrics_raise(m) ==
    \/ FloatRaises(m.tourism_data.tourism_dependency_index)
    \/ FloatRaises(m.tourism_data.lodging_establishments_count)
    \/ FloatRaises(m.business_data.small_business_pct)
    \/ FloatRaises(m.evacuation_data.households_no_vehicle_pct)
    \/ FloatRaises(m.evacuation_data.elderly_population_pct)
    \/ FloatRaises(m.evacuation_data.mobility_impaired_pct)
    \/ FloatRaises(m.education_data.k12_student_density)
    \/ FloatRaises(m.education_data.caregiver_employment_pct)
    \/ FloatRaises(m.education_data.k12_schools_count)

\* The dictionary calculate_impact_index returns when nothing raises.
impact_metrics(tourism, business, evacuation, education) ==
    [economic_impact_index |->
         clamp(impact_index(tourism, business, education)),
     tourism_exposure_score |-> tourism,
     small_business_vulnerability_score |-> business,
     evacuation_constraints_score |-> evacuation,
     educational_disruption_score |-> education]

\* calculate_impact_index(tourism_data, business_data, evacuation_data,
\* education_data), the four dictionaries being the fields of m.
calculate_impact_index(m) ==
    IF metrics_raise(m) THEN ZeroMetrics
    ELSE impact_metrics(tourism_exposure(m.tourism_data),
                        1000 * m.business_data.small_business_pct,
                        evacuation_constraints(m.evacuation_data),
                        educational_disruption(m.education_data))

\* An evacuation dictionary without any of the keys: every .get gives 0.0.
NoEvacuationData ==
    [households_no_vehicle_pct |-> 0, elderly_population_pct |-> 0,
     mobility_impaired_pct |-> 0]

\* Dictionaries a caller gives to calculate_impact_index: a dependency that
\* is negative, zero, one, or an employment count divided by the default
\* total of 1 (680 employees); lodging counts up to and past the 50 that
\* saturate, or a string; and so on.
MetricInputs ==
    [tourism_data :
         [tourism_dependency_index     : {0 - 50, 0, 100, 68000},
          lodging_establishments_count : {0, 20, 50, NotNumeric}],
     business_data :
         [small_business_pct : {0, 35, 100}],
     evacuation_data :
         {NoEvacuationData,
          [households_no_vehicle_pct |-> 8, elderly_population_pct |-> 18,
           mobility_impaired_pct |-> 12],
          [households_no_vehicle_pct |-> NotNumeric,
           elderly_population_pct |-> 18, mobility_impaired_pct |-> 12]},
     education_data :
         [k12_student_density      : {0, 452, 1000},
          caregiver_employment_pct : {0, 28, 100},
          k12_schools_count        : {0, 8, 20}]]

\* A call of calculate_impact_index on the dictionaries of metrics_in.
CalculateImpactIndex ==
    /\ e_pc = "calculator"
    /\ metrics_out' = calculate_impact_index(metrics_in)
    /\ e_pc' = "calculated"
    /\ UNCHANGED << fires_file, fires, fire_pos, now, last_api_call,
                    api_calls, zipcode, econ_records, econ_output,
                    metrics_in >>

\* `self.min_api_interval = 1.0`
min_api_interval == 10

\* `timeout=10` of every self.session.get.
request_timeout == 100

\* 'max_retries': 3 of PROCESSING_CONFIG.
max_retries == 3

\* Most rows of the primary file of an economic run.
MaxFires == 3

\* time.time() when a run starts: far more than min_api_interval after 0,
\* the initial self.last_api_call.
Epoch == 5 * min_api_interval

\* The rows an economic run reads: n rows that start at kind `first` and
\* cycle through a geolocated row, a row at (0, 0), a row whose latitude is
\* not a number and a row without coordinates.
FireKinds == << P_kincade, P_zero, P_text, P_nan >>

FireFile(n, first) ==
    [i \in 1..n |->
        [FireKinds[((first + i - 2) % Len(FireKinds)) + 1] EXCEPT !.id = i]]

\* The methods of EconomicDataConnector.
connector_methods ==
    { "_rate_limit", "get_zipcode_from_coordinates",
      "get_census_business_data", "get_google_places_data",
      "get_education_data" }

\* How a request ends: a 200 response, another status, an exception raised
\* at once (connection refused), an exception after the timeout.
Replies == { "ok", "status", "refused", "timeout" }

\* The time self.session.get takes, by how it ends.
elapsed(reply) ==
    CASE reply = "ok"      -> 2
      [] reply = "status"  -> 2
      [] reply = "refused" -> 0
      [] OTHER             -> request_timeout

\* _rate_limit without its sleep.
rate_limit_without_sleep(current_time, last) == current_time

\* _rate_limit: time.time() when it returns, having slept for what is left
\* of min_api_interval since the last call.
rate_limit(current_time, last) ==
    IF current_time - last < min_api_interval
    THEN current_time + (min_api_interval - (current_time - last))
    ELSE current_time

\* What process_chunk adds to a row for an EconomicImpactResult that has
\* no zipcode, zero scores and no sources.
ZeroResult ==
    [zipcode |-> "", economic_impact_index |-> 0, tourism_exposure_score |-> 0,
     small_business_vulnerability_score |-> 0,
     educational_disruption_score |-> 0, economic_sources_used |-> << >>]

\* record_dict.update({...}) of process_chunk.
economic_update(record_dict, result) == result @@ record_dict

\* Whether enrich_fire_with_economic_data returns before any request: float()
\* raises, or `lat == 0 or lng == 0`.
without_coordinates(fire_record) ==
    \/ FloatRaises(fire_record.lat) \/ FloatRaises(fire_record.lng)
    \/ fire_record.lat = 0 \/ fire_record.lng = 0

\* Whether _get_evacuation_data raises AttributeError: it calls a method the
\* connector of this file does not have.
evacuation_lookup_raises ==
    "get_evacuation_constraint_data" \notin connector_methods

InitEcon ==
    /\ PipelineIdle
    /\ MatchIdle
    /\ NamesIdle
    /\ now = Epoch /\ last_api_call = 0 /\ api_calls = <<>> /\ zipcode = ""
    /\ fire_pos = 0 /\ econ_records = <<>> /\ econ_output = <<>>
    /\ metrics_out = <<>>
    /\ \/ /\ e_pc = "start"
          /\ fires_file = "ok"
          /\ fires \in {FireFile(n, first) :
                            n \in 0..MaxFires, first \in 1..Len(FireKinds)}
          /\ metrics_in = <<>>
       \/ /\ e_pc = "start"
          /\ fires_file \in {"missing", "unreadable"}
          /\ fires = <<>>
          /\ metrics_in = <<>>
       \/ /\ e_pc = "calculator"
          /\ fires_file = "ok"
          /\ fires = <<>>
          /\ metrics_in \in MetricInputs

\* The head of run_full_economic_integration: `return ""` when the primary
\* file does not exist; the count of its chunks, where pd.read_csv raises on
\* a file it cannot read and main() reports the error.
StartEconomic ==
    /\ e_pc = "start"
    /\ e_pc' = CASE fires_file = "missing"    -> "not_found"
                 [] fires_file = "unreadable" -> "failed"
                 [] OTHER                     -> "next"
    /\ UNCHANGED << fires_file, fires, fire_pos, now, last_api_call,
                    api_calls, zipcode, econ_records, econ_output,
                    metrics_in, metrics_out >>

\* A turn of the record loop of process_chunk on a row for which
\* enrich_fire_with_economic_data sends no request.
EnrichWithoutCoordinates ==
    /\ e_pc = "next"
    /\ fire_pos < Len(fires)
    /\ without_coordinates(fires[fire_pos + 1])
    /\ econ_records' =
           Append(econ_records, economic_update(fires[fire_pos + 1], ZeroResult))
    /\ fire_pos' = fire_pos + 1
    /\ UNCHANGED << e_pc, fires_file, fires, now, last_api_call, api_calls,
                    zipcode, econ_output, metrics_in, metrics_out >>

\* A connector method up to the end of its request: self._rate_limit(), then
\* self.session.get(..., timeout=10), which ends with `reply`.
request(provider, reply) ==
    /\ last_api_call' = rate_limit(now, last_api_call)
    /\ api_calls' = Append(api_calls,
                           [fire |-> fire_pos + 1, provider |-> provider,
                            at |-> last_api_call', reply |-> reply])
    /\ now' = last_api_call' + elapsed(reply)

\* get_zipcode_from_coordinates: the postcode of a 200 response, "" after
\* any other status or an exception.
LookupZipcode ==
    /\ e_pc = "next"
    /\ fire_pos < Len(fires)
    /\ ~without_coordinates(fires[fire_pos + 1])
    /\ \E reply \in Replies :
          /\ request("reverse geocoding", reply)
          /\ zipcode' = IF reply = "ok" THEN "95472" ELSE ""
    /\ e_pc' = "zipcode"
    /\ UNCHANGED << fires_file, fires, fire_pos, econ_records, econ_output,
                    metrics_in, metrics_out >>

\* _get_tourism_data, first half: get_google_places_data.
GooglePlaces ==
    /\ e_pc = "zipcode"
    /\ \E reply \in Replies : request("google places", reply)
    /\ e_pc' = "places"
    /\ UNCHANGED << fires_file, fires, fire_pos, zipcode, econ_records,
                    econ_output, metrics_in, metrics_out >>

\* _get_tourism_data, second half: get_census_business_data; then
\* _get_business_data, and _get_evacuation_data, whose AttributeError the
\* `except Exception` of enrich_fire_with_economic_data turns into the
\* result without zipcode; process_chunk appends the row.
CensusBusiness ==
    /\ e_pc = "places"
    /\ \E reply \in Replies : request("census", reply)
    /\ evacuation_lookup_raises
    /\ econ_records' =
           Append(econ_records, economic_update(fires[fire_pos + 1], ZeroResult))
    /\ fire_pos' = fire_pos + 1
    /\ zipcode' = ""
    /\ e_pc' = "next"
    /\ UNCHANGED << fires_file, fires, econ_output, metrics_in, metrics_out >>

\* The reader is exhausted: pd.DataFrame(all_enriched_records).to_csv(...).
FinishEconomic ==
    /\ e_pc = "next"
    /\ fire_pos = Len(fires)
    /\ econ_output' = << econ_records >>
    /\ e_pc' = "written"
    /\ UNCHANGED << fires_file, fires, fire_pos, now, last_api_call,
                    api_calls, zipcode, econ_records, metrics_in, metrics_out >>

NextEcon ==
    /\ \/ StartEconomic
       \/ EnrichWithoutCoordinates
       \/ LookupZipcode
       \/ GooglePlaces
       \/ CensusBusiness
       \/ FinishEconomic
       \/ CalculateImpactIndex
    /\ UNCHANGED << pipeline_vars, match_vars, name_vars >>

SpecEcon == InitEcon /\ [][NextEcon]_vars

\* --------------------------------- properties of the economic integrator

\* C11: whatever dictionaries calculate_impact_index is given, the index it
\* returns is 0.50 * tourism exposure + 0.30 * small business vulnerability
\* + 0.20 * educational disruption of the scores it returns, clamped to
\* [0, 1]; it is 0 when every input is zero and 1 when the three scores
\* are 1.
C11_ImpactIndex ==
    e_pc = "calculated" =>
        LET index == metrics_out.economic_impact_index
            t == metrics_out.tourism_exposure_score
            b == metrics_out.small_business_vulnerability_score
            e == metrics_out.educational_disruption_score
            weighted == (5 * t + 3 * b + 2 * e) \div 10
        IN  /\ index = (IF weighted < 0 THEN 0
                        ELSE IF weighted > ONE THEN ONE ELSE weighted)
            /\ index >= 0 /\ index <= ONE
            /\ (t = 0 /\ b = 0 /\ e = 0) => index = 0
            /\ (t = ONE /\ b = ONE /\ e = ONE) => index = ONE

\* A call whose weighted sum is above 1 and is clamped.
C11_Witness ==
    /\ e_pc = "calculated"
    /\ metrics_in.tourism_data.tourism_dependency_index > 100
    /\ metrics_in.tourism_data.lodging_establishments_count = 20
    /\ metrics_out.tourism_exposure_score > ONE
    /\ metrics_out.economic_impact_index = ONE

\* The requests sent for one row to one provider.
Attempts(fire, provider) ==
    { i \in 1..Len(api_calls) :
          api_calls[i].fire = fire /\ api_calls[i].provider = provider }

\* The run has gone past request i: to another provider, or to the next row.
MovedOn(i) ==
    \/ fire_pos >= api_calls[i].fire
    \/ \E j \in (i + 1)..Len(api_calls) :
          api_calls[j].provider # api_calls[i].provider

\* C15: a request that failed (an exception, a timeout, a status other than
\* 200) is tried again, at most max_retries times in all: the run goes past
\* a failed request only when a later attempt for the same row and provider
\* was made or max_retries attempts were.
C15_RetryThenProceed ==
    \A i \in 1..Len(api_calls) :
        LET tried == Attempts(api_calls[i].fire, api_calls[i].provider)
        IN  /\ Cardinality(tried) <= max_retries
            /\ (api_calls[i].reply # "ok" /\ MovedOn(i)) =>
                   \/ \E j \in tried : j > i
                   \/ Cardinality(tried) = max_retries

\* C16: any two consecutive requests of the connector are at least
\* min_api_interval apart, and every request was stamped by _rate_limit:
\* last_api_call is the time of the latest request.
C16_RateLimit ==
    /\ \A i \in 2..Len(api_calls) :
           api_calls[i].at - api_calls[i - 1].at >= min_api_interval
    /\ last_api_call = (IF api_calls = << >> THEN 0
                        ELSE api_calls[Len(api_calls)].at)

\* A request refused at once, and the next request sent after _rate_limit
\* slept for the whole interval.
C16_Witness ==
    /\ Len(api_calls) >= 2
    /\ api_calls[1].reply = "refused"
    /\ api_calls[2].at = api_calls[1].at + min_api_interval
    /\ now > api_calls[2].at

\* ------------------------------------------------ containment of errors

\* float() of a coordinate of the record raises.
CoordinateError(record) ==
    FloatRaises(record.lat) \/ FloatRaises(record.lng)

\* json.loads of the data payload of the record raises.
MalformedPayload(record) == record.data \notin {"", "json"}

\* The record `out` has every field of `record` with its value.
KeepsFields(record, out) ==
    \A f \in DOMAIN record : f \in DOMAIN out /\ out[f] = record[f]

\* Every row of the current chunk that the record loop has passed is emitted
\* with its own fields, and every row of a finished run is in the final
\* output, in the order of the file.
EveryRowEmitted ==
    /\ Len(chunk_results) <= Len(chunk)
    /\ \A i \in 1..Len(chunk_results) : KeepsFields(chunk[i], chunk_results[i])
    /\ (pc = "done" /\ resumed_from = 0) =>
           /\ Len(final_output[1]) = Len(input)
           /\ \A i \in 1..Len(input) : final_output[1][i].id = input[i].id

\* Every row the economic run has passed is emitted with its own fields,
\* and without economic data when its coordinates do not parse or a request
\* made for it failed.
EveryFireEmitted ==
    /\ Len(econ_records) = fire_pos
    /\ \A i \in 1..Len(econ_records) :
           /\ KeepsFields(fires[i], econ_records[i])
           /\ (\/ CoordinateError(fires[i])
               \/ \E j \in 1..Len(api_calls) :
                     api_calls[j].fire = i /\ api_calls[j].reply # "ok") =>
                  /\ econ_records[i].economic_impact_index = 0
                  /\ econ_records[i].zipcode = ""
                  /\ econ_records[i].economic_sources_used = << >>
    /\ e_pc = "written" => Len(econ_output[1]) = Len(fires)

\* C20 as stated: an error in one record (coordinates that are not numbers,
\* a malformed data payload) stays in that record; the record is emitted
\* without enrichment and the run goes on with the next rows and chunks.
C20_ErrorsLeaveUnenriched ==
    /\ EveryRowEmitted
    /\ EveryFireEmitted
    /\ \A i \in 1..Len(chunk_results) :
           (CoordinateError(chunk[i]) \/ MalformedPayload(chunk[i])) =>
               Unenriched(chunk[i], chunk_results[i])

\* C20, amended: the error stays in the record, the record is emitted and
\* the run goes on; the record is emitted without enrichment when its
\* coordinates are not numbers, while a malformed data payload only leaves
\* data_parsed empty.
C20_ErrorContained ==
    /\ EveryRowEmitted
    /\ EveryFireEmitted
    /\ \A i \in 1..Len(chunk_results) :
           /\ CoordinateError(chunk[i]) => Unenriched(chunk[i], chunk_results[i])
           /\ (MalformedPayload(chunk[i]) /\ "data_parsed" \in DOMAIN chunk_results[i])
                  => chunk_results[i].data_parsed = "empty"

\* A finished run whose file has a row with a latitude that is not a number
\* and, after it and in a later chunk, a row that was enriched.
C20_Witness ==
    /\ pc = "done"
    /\ resumed_from = 0
    /\ \E i \in 1..Len(input) :
          /\ CoordinateError(input[i])
          /\ Unenriched(input[i], final_output[1][i])
          /\ \E j \in (i + chunk_size)..Len(input) :
                "enrichment_sources" \in DOMAIN final_output[1][j]

\* ------------------------------------------------ counters and checkpoints

\* C21: at every chunk boundary and at completion of a refined run,
\* quality_stats['total_processed'] is the number of rows the reader has
\* handed out, whatever the rows are.
C21_ProcessedCounter ==
    (profile = "refined" /\ pc \in {"boundary", "done"}) =>
        quality_stats.total_processed = stream_pos

\* The file intermediate_results_chunk_<k>.csv holds the output of chunks
\* 1..k: one row per row of the primary file up to the end of chunk k, in
\* file order, each the record the loop produced for it.
HoldsChunksUpTo(c) ==
    /\ c.chunk_num >= 1
    /\ Len(c.records) = Min(c.chunk_num * chunk_size, Len(input))
    /\ \A j \in 1..Len(c.records) :
          /\ c.records[j].id = input[j].id
          /\ KeepsFields(input[j], c.records[j])

\* The checkpoints of a run that was not restarted are keyed by the chunks
\* 10, 20, ... and each holds the output of the chunks up to its key.
CheckpointsKeyed ==
    resumed_from = 0 =>
        \A i \in 1..Len(checkpoints) :
            /\ checkpoints[i].chunk_num = i * checkpoint_every
            /\ HoldsChunksUpTo(checkpoints[i])

\* Right after a save the counters of the run are those of the rows of the
\* file: the number of rows, and the number of rows with enrichment sources.
CountersOfLastSave ==
    (/\ pc = "loop" /\ resumed_from = 0 /\ checkpoints # << >>
     /\ checkpoints[Len(checkpoints)].chunk_num = chunk_num) =>
        /\ processed_count = Len(checkpoints[Len(checkpoints)].records)
        /\ enriched_count =
               chunk_enriched(checkpoints[Len(checkpoints)].records)

AboutEightTenths(distance) == distance >= 75 /\ distance <= 90

\* The zones of the pool that are the candidate of the example.
ExampleCandidates == { i \in 1..Len(pool) : pool[i] = Z_rd }

\* C23: 'Kincade Fire' at (38.44, -122.71) scored against the zone 'Kincade
\* Rd Evac Zone' about 0.8 miles away is valid, at about 0.8 miles, with a
\* geographic score of at least 0.8 and a confidence of at least the
\* threshold (0.4 refined, 0.3 baseline), and the search returns a
\* MatchResult.
C23_AcceptExample ==
    primary = P_kincade =>
        /\ m_pc = "scored_refined" =>
               \A i \in ExampleCandidates :
                   /\ outcome[i].is_valid
                   /\ outcome[i].quality_flags = << >>
                   /\ AboutEightTenths(outcome[i].distance)
                   /\ outcome[i].factors.geographic >= Tenths(8)
                   /\ outcome[i].score >= Tenths(refined_confidence_threshold)
        /\ m_pc = "scored_optimized" =>
               \A i \in ExampleCandidates :
                   /\ outcome[i].factors.geographic >= Tenths(8)
                   /\ outcome[i].score >= Tenths(full_confidence_threshold)
        /\ (m_pc = "matched_refined" /\ ExampleCandidates # {}) =>
               /\ Len(outcome.matches) = 1
               /\ outcome.matches[1].confidence_score
                      >= Tenths(refined_confidence_threshold)
               /\ pool = << Z_rd >> =>
                      /\ outcome.matches[1].external_id = Z_rd.uid_v2
                      /\ AboutEightTenths(outcome.matches[1].distance_miles)
        /\ (m_pc = "matched_full" /\ ExampleCandidates # {}) =>
               /\ Len(outcome) = 1
               /\ outcome[1].confidence_score
                      >= Tenths(full_confidence_threshold)

\* The refined search of the example record over the example zone alone has
\* returned the zone.
C23_Witness ==
    /\ m_pc = "matched_refined"
    /\ primary = P_kincade
    /\ pool = << Z_rd >>
    /\ Len(outcome.matches) = 1
    /\ outcome.matches[1].external_id = Z_rd.uid_v2
    /\ outcome.matches[1].match_factors.geographic >= Tenths(8)

\* The zones of the pool 40 miles from P_kincade: Z_far, outside the
\* half-degree box of the search, and Z_diag, inside it.
FortyMilesAway == { i \in 1..Len(pool) : pool[i] \in { Z_far, Z_diag } }

\* C24: the example record against a candidate 40 miles away gives no
\* MatchResult, and the quality flags returned for the rejection contain
\* 'distance_too_far'.
C24_RejectExample ==
    primary = P_kincade =>
        /\ m_pc = "validated" =>
               \A i \in FortyMilesAway :
                   /\ ~outcome[i].is_valid
                   /\ outcome[i].distance \in 4000..4010
                   /\ HasFlag(outcome[i].flags, {"distance_too_far"})
        /\ m_pc = "scored_refined" =>
               \A i \in FortyMilesAway :
                   /\ ~outcome[i].is_valid
                   /\ outcome[i].score = 0
                   /\ HasFlag(outcome[i].quality_flags, {"distance_too_far"})
        /\ m_pc = "matched_refined" =>
               /\ \A i \in 1..Len(outcome.matches) :
                      outcome.matches[i].external_id
                          \notin { Z_far.uid_v2, Z_diag.uid_v2 }
               /\ FortyMilesAway = 1..Len(pool) => outcome.matches = << >>
               /\ outcome.rejected_distance
                      >= Cardinality({ i \in 1..Len(pool) : pool[i] = Z_diag })

\* The example record was scored against a zone 40 miles away and the
\* result carries the flag.
C24_Witness ==
    /\ m_pc = "scored_refined"
    /\ primary = P_kincade
    /\ pool # << >>
    /\ pool[1] = Z_diag
    /\ outcome[1].distance = 4010
    /\ outcome[1].quality_flags = << "distance_too_far" >>

\* ------------------------------------------------ the frame of enrichment

\* The metadata fields enrich_record / enrich_record_refined may add.
MetadataFields ==
    { "enrichment_sources", "enrichment_log", "match_confidence_avg",
      "quality_flags", "geographic_validation" }

\* An enrichment value that `str(value).strip()` leaves empty: a zone name
\* (characters) or an attribution or dataset (a string) of blanks; the
\* distance is a number.
BlankValue(f, value) ==
    CASE f = "evacuation_zone"           -> value \in { << >>, << " " >> }
      [] f = "evacuation_distance_miles" -> FALSE
      [] OTHER                           -> value \in { "", " " }

\* The field of the returned record is the non-empty enrichment value of
\* one of the matches.
Contributed(f, matches, out) ==
    \E i \in 1..Len(matches) :
        /\ f \in DOMAIN matches[i].enrichment_data
        /\ ~BlankValue(f, matches[i].enrichment_data[f])
        /\ out[f] = matches[i].enrichment_data[f]

\* C25: the record enrich_record / enrich_record_refined returns keeps
\* every field of the record passed in with its value; what it has more is
\* a metadata field or a non-empty enrichment value of the match, and with
\* no match it is the record passed in.
C25_EnrichmentFrame ==
    m_pc \in {"enriched_full", "enriched_refined"} =>
        /\ outcome.record = primary
        /\ KeepsFields(outcome.record, outcome.out)
        /\ \A f \in DOMAIN outcome.out \ DOMAIN outcome.record :
               \/ f \in MetadataFields
               \/ Contributed(f, outcome.matches, outcome.out)
        /\ outcome.matches = << >> => outcome.out = outcome.record
        /\ outcome.matches # << >> =>
               /\ "enrichment_sources" \in DOMAIN outcome.out
               /\ \A i \in 1..Len(outcome.matches) :
                      \A f \in DOMAIN outcome.matches[i].enrichment_data :
                          BlankValue(f, outcome.matches[i].enrichment_data[f])
                              => f \notin DOMAIN outcome.out

\* The refined enrichment has run with a match whose attribution is empty:
\* the zone name is added, the attribution is not.
C25_Witness ==
    /\ m_pc = "enriched_refined"
    /\ Len(outcome.matches) = 1
    /\ outcome.matches[1].enrichment_data.evacuation_source = ""
    /\ "evacuation_zone" \in DOMAIN outcome.out
    /\ "evacuation_source" \notin DOMAIN outcome.out
    /\ outcome.out.name = primary.name

\* The full-scale enrichment has run on a record without a match.
C25_WitnessNoMatch ==
    /\ m_pc = "enriched_full"
    /\ outcome.matches = << >>
    /\ outcome.out = primary
    /\ pool # << >>

\* ------------------------------------------------- the geographic curve

\* C26: the geographic score of the refined matcher never goes up with the
\* distance over 0..25 miles: the nearer of two distances has a score at
\* least that of the farther.
C26_GeoMonotone ==
    m_pc = "geo_compared" => outcome.near_score >= outcome.far_score

\* ------------------------------------------- the economic result of a row

\* Every request sent for row i of the economic run ended with a 200
\* response.
EveryCallSucceeded(i) ==
    \A j \in 1..Len(api_calls) :
        api_calls[j].fire = i => api_calls[j].reply = "ok"

\* C27: a row with nonzero coordinates for which every provider call
\* succeeded is emitted with the index and the component scores computed by
\* calculate_impact_index (the small-business score 0.35 of
\* _get_business_data, an index of at least 0.3 * 0.35) and its zipcode,
\* not with the all-zero result of the exception handler.
C27_ComputedIndex ==
    \A i \in 1..Len(econ_records) :
        (/\ ~without_coordinates(fires[i])
         /\ ~IsNaN(fires[i].lat) /\ ~IsNaN(fires[i].lng)
         /\ EveryCallSucceeded(i)) =>
            /\ econ_records[i].zipcode # ""
            /\ econ_records[i].small_business_vulnerability_score
                   = (35 * ONE) \div 100
            /\ econ_records[i].economic_impact_index
                   >= (3 * 35 * ONE) \div 1000

\* C28: the evacuation dictionary has no influence on the index: the index
\* of a call is the index of the call with the same tourism, business and
\* education dictionaries and an evacuation dictionary without values.
C28_EvacuationIgnored ==
    e_pc = "calculated" =>
        metrics_out.economic_impact_index =
            calculate_impact_index(
                [metrics_in EXCEPT !.evacuation_data = NoEvacuationData]
            ).economic_impact_index

\* ------------------------------------------- matches of the refined run

\* The records of the list that carry a non-empty enrichment_sources.
WithSources(records) ==
    { i \in 1..Len(records) :
          /\ "enrichment_sources" \in DOMAIN records[i]
          /\ records[i].enrichment_sources # << >> }

\* C29: after every chunk of a refined run, quality_stats['valid_matches']
\* is enriched_count, the number of output records so far that carry a
\* non-empty enrichment_sources.
C29_MatchesAreEnriched ==
    (profile = "refined" /\ pc \in {"boundary", "loop", "done"}) =>
        /\ quality_stats.valid_matches = enriched_count
        /\ enriched_count = Cardinality(WithSources(all_enriched_records))

\* A refined run is at the boundary of a later chunk with enriched and
\* unenriched records behind it.
C29_Witness ==
    /\ profile = "refined"
    /\ pc = "boundary"
    /\ chunk_num >= 2
    /\ quality_stats.valid_matches >= 2
    /\ enriched_count < processed_count

\* C30: every match find_evacuation_matches_refined returns has no quality
\* flag and a confidence of at least the threshold 0.4, so every record
\* enrich_record_refined enriches has quality_flags empty and
\* match_confidence_avg of at least 0.4; no rejection flag reaches a record.
C30_AcceptedFlagFree ==
    /\ m_pc = "matched_refined" =>
           \A i \in 1..Len(outcome.matches) :
               /\ outcome.matches[i].quality_flags = << >>
               /\ outcome.matches[i].confidence_score
                      >= Tenths(refined_confidence_threshold)
    /\ (m_pc \in {"enriched_refined", "processed_refined"}
        /\ "enrichment_sources" \in DOMAIN outcome.out) =>
           /\ outcome.out.quality_flags = {}
           /\ outcome.out.match_confidence_avg
                  >= Tenths(refined_confidence_threshold)
    /\ m_pc \in {"enriched_refined", "processed_refined"} =>
           ("quality_flags" \in DOMAIN outcome.out
                => outcome.out.quality_flags = {})
    /\ profile = "refined" =>
           \A i \in WithSources(chunk_results) :
               /\ chunk_results[i].quality_flags = {}
               /\ chunk_results[i].match_confidence_avg
                      >= Tenths(refined_confidence_threshold)

\* The refined search returned a match from a pool that also holds a zone
\* rejected for its distance, and the match carries no flag.
C30_Witness ==
    /\ m_pc = "matched_refined"
    /\ Len(outcome.matches) = 1
    /\ outcome.rejected_distance >= 1
    /\ outcome.matches[1].quality_flags = << >>

====
